---------------------------- MODULE Spec2Model ----------------------------
(***************************************************************************)
(* A model of the BSP decoding engine of vikpe/bspparser (src/src/lib.rs,  *)
(* src/src/ioextra.rs, src/src/helpers.rs).                                *)
(*                                                                         *)
(* Bytes are the integers 0..255, a file is a sequence of bytes, text is a *)
(* sequence of character codes.  Results of fallible functions are records *)
(* [ok |-> TRUE, val |-> v] or [ok |-> FALSE, err |-> e].                  *)
(*                                                                         *)
(* TLC's integers are 32 bits wide and signed: an unsigned 32-bit field is *)
(* decoded exactly as long as its value is below 2^31, and every input the *)
(* specifications enumerate keeps the unsigned 32-bit fields below 2^31.   *)
(* Floats are kept as the signed integer that has the same 32 bits.        *)
(***************************************************************************)
EXTENDS Integers, Sequences, FiniteSets, TLC

VARIABLES
    file,     \* the input of BspFile::parse: the bytes behind the reader r
    pos,      \* the cursor of the reader r
    pc,       \* the statement of BspFile::parse that runs next
    loc,      \* the locals of BspFile::parse bound so far
    result,   \* what BspFile::parse returned ("none" while it runs)
    log,      \* the seeks and reads issued on r, in order
    inp,      \* the arguments of a pure function under check
    out       \* its results

vars == <<file, pos, pc, loc, result, log, inp, out>>

Ok(v) == [ok |-> TRUE, val |-> v]

Err(e) == [ok |-> FALSE, err |-> e]

\* `let v = x; F(v)`: x is evaluated once and F sees its value.
Let1(F(_), x) == CHOOSE y \in {F(v) : v \in {x}} : TRUE

(***************************************************************************)
(* Version resolution: BspVersion::try_from.                               *)
(***************************************************************************)
UnsupportedVersion == "Unsupported BSP version"

\* A resolution that puts the rejected bytes into the error.
try_from_carrying(version) ==
    IF version = <<29, 0, 0, 0>> THEN Ok("V29")
    ELSE IF version = <<66, 83, 80, 50>> THEN Ok("BSP2")
    ELSE Err(<<UnsupportedVersion, version>>)

\* A resolution that looks at the first byte only.
try_from_first_byte(version) ==
    IF version[1] = 29 THEN Ok("V29")
    ELSE IF version[1] = 66 THEN Ok("BSP2")
    ELSE Err(UnsupportedVersion)

try_from(version) ==
    IF version = <<29, 0, 0, 0>> THEN Ok("V29")
    ELSE IF version = <<66, 83, 80, 50>> THEN Ok("BSP2")
    ELSE Err(UnsupportedVersion)


(***************************************************************************)
(* The reader r: Read + Seek over the bytes of file.  A position is the    *)
(* number of bytes before the cursor; seeking past the end succeeds and    *)
(* the next read fails.                                                    *)
(***************************************************************************)
UnexpectedEof == "failed to fill whole buffer"

Max(a, b) == IF a >= b THEN a ELSE b

Min(a, b) == IF a <= b THEN a ELSE b

\* std::io::Read::read_exact of n bytes at position p of f.
read_exact(f, p, n) ==
    IF p + n <= Len(f)
    THEN [ok |-> TRUE, val |-> SubSeq(f, p + 1, p + n), pos |-> p + n]
    ELSE [ok |-> FALSE, err |-> UnexpectedEof, pos |-> p]

\* Little-endian unsigned value of the bytes of bs from index k on.
RECURSIVE from_le_bytes_at(_, _)
from_le_bytes_at(bs, k) ==
    IF k > Len(bs) THEN 0 ELSE bs[k] + 256 * from_le_bytes_at(bs, k + 1)

\* Little-endian unsigned value of a byte sequence (u8, u16, u32).
from_le_bytes(bs) == from_le_bytes_at(bs, 1)

\* Little-endian two's complement value of 4 bytes (i32; the bits of an f32).
from_le_bytes_i32(bs) ==
    from_le_bytes(SubSeq(bs, 1, 3))
        + 16777216 * (IF bs[4] >= 128 THEN bs[4] - 256 ELSE bs[4])

(***************************************************************************)
(* The wire layouts of the #[derive(BinRead)] #[br(little)] structs: the   *)
(* fields in declaration order, nested structs flattened.  n is the length *)
(* of an array field and 0 for a scalar.                                   *)
(***************************************************************************)
Fld(name, kind, n) == [name |-> name, kind |-> kind, n |-> n]

Layout(T) ==
    CASE T = "u8" -> << Fld("value", "u8", 0) >>
      [] T = "i32" -> << Fld("value", "i32", 0) >>
      [] T = "Entry" -> << Fld("offset", "u32", 0), Fld("size", "u32", 0) >>
      [] T = "Plane" ->
            << Fld("normal", "f32", 3), Fld("distance", "f32", 0),
               Fld("kind", "i32", 0) >>
      [] T = "Vertex" ->
            << Fld("x", "f32", 0), Fld("y", "f32", 0), Fld("z", "f32", 0) >>
      [] T = "TextureInfo" ->
            << Fld("u_vec", "f32", 3), Fld("u_offset", "f32", 0),
               Fld("v_vec", "f32", 3), Fld("v_offset", "f32", 0),
               Fld("texture_index", "u32", 0), Fld("flags", "u32", 0) >>
      [] T = "Model" ->
            << Fld("bounds_min", "f32", 3), Fld("bounds_max", "f32", 3),
               Fld("origin", "f32", 3), Fld("bsp", "i32", 0),
               Fld("clip1", "i32", 0), Fld("clip2", "i32", 0),
               Fld("node3", "i32", 0), Fld("leaf_count", "i32", 0),
               Fld("face_index_from", "i32", 0), Fld("face_count", "i32", 0) >>
      [] T = "Face" ->
            << Fld("plane_index", "u32", 0), Fld("side", "u32", 0),
               Fld("edge_list_index", "u32", 0), Fld("edge_count", "u32", 0),
               Fld("texture_info_index", "u32", 0), Fld("type_light", "u8", 0),
               Fld("base_light", "u8", 0), Fld("light", "u8", 2),
               Fld("lightmap", "u32", 0) >>
      [] T = "FaceV1" ->
            << Fld("plane_index", "u16", 0), Fld("side", "u16", 0),
               Fld("edge_list_index", "u32", 0), Fld("edge_count", "u16", 0),
               Fld("texture_info_index", "u16", 0), Fld("type_light", "u8", 0),
               Fld("base_light", "u8", 0), Fld("light", "u8", 2),
               Fld("lightmap", "u32", 0) >>
      [] T = "Edge" -> << Fld("v0", "u32", 0), Fld("v1", "u32", 0) >>
      [] T = "EdgeV1" -> << Fld("v0", "u16", 0), Fld("v1", "u16", 0) >>
      [] T = "TextureFields" ->   \* Texture after its name
            << Fld("width", "i32", 0), Fld("height", "i32", 0),
               Fld("offset1", "u32", 0), Fld("offset2", "u32", 0),
               Fld("offset4", "u32", 0), Fld("offset8", "u32", 0) >>

\* The width in bytes of a primitive.
Width(kind) ==
    CASE kind = "u8" -> 1
      [] kind = "u16" -> 2
      [] kind \in {"u32", "i32", "f32"} -> 4

FieldSize(e) == Width(e.kind) * Max(e.n, 1)

RECURSIVE SumSizes(_, _)
SumSizes(L, k) == IF k = 0 THEN 0 ELSE SumSizes(L, k - 1) + FieldSize(L[k])

\* The number of bytes a record of layout L takes on the wire.
WireSize(L) == SumSizes(L, Len(L))

\* std::mem::size_of: the fields packed by descending alignment, the total
\* rounded up to the largest alignment.
Align(L) ==
    Width(L[CHOOSE i \in 1..Len(L) :
              \A j \in 1..Len(L) : Width(L[i].kind) >= Width(L[j].kind)].kind)

RoundUp(sum, align) == ((sum + align - 1) \div align) * align

size_of(T) == RoundUp(WireSize(Layout(T)), Align(Layout(T)))

\* One primitive read by binrw (read_le of an integer or float).
read_prim(kind, bs) ==
    IF kind \in {"i32", "f32"} THEN from_le_bytes_i32(bs) ELSE from_le_bytes(bs)

read_field(e, bs) ==
    IF e.n = 0 THEN read_prim(e.kind, bs)
    ELSE [i \in 1..e.n |->
            read_prim(e.kind, SubSeq(bs, (i - 1) * Width(e.kind) + 1,
                                     i * Width(e.kind)))]

\* T::read_le for a derived struct: the fields one after the other from
\* position p; the first field that does not fit fails the read.
FieldIndex(L, nm) == CHOOSE k \in 1..Len(L) : L[k].name = nm

\* The k-th field of layout L of the record that starts at position p.
read_field_at(L, f, p, k) ==
    read_field(L[k], SubSeq(f, p + SumSizes(L, k - 1) + 1, p + SumSizes(L, k)))

read_fields(L, f, p) ==
    IF p + WireSize(L) > Len(f)
    THEN [ok |-> FALSE, err |-> UnexpectedEof, pos |-> p]
    ELSE [ok |-> TRUE,
          val |-> [nm \in {L[k].name : k \in 1..Len(L)} |->
                     read_field_at(L, f, p, FieldIndex(L, nm))],
          pos |-> p + WireSize(L)]

read_le(T, f, p) == read_fields(Layout(T), f, p)

(***************************************************************************)
(* ioextra.rs: FromReader and read_vec.  A reader kind T is one of the     *)
(* types read_vec is instantiated with.                                    *)
(***************************************************************************)
\* The 16-bit value taken as signed before it is widened (sign extension).
as_i16_as_u32(v) == IF v >= 32768 THEN v - 65536 ELSE v

\* u16 as u32: the value is kept (zero extension).
as_u32(v) == v

\* The struct whose size_of divides the entry size.
SizedAs(T) ==
    CASE T = "FaceV1Reader" -> "FaceV1"
      [] T = "EdgeV1Reader" -> "EdgeV1"
      [] OTHER -> T

\* A count that rounds the division up instead of down.
element_count_ceil(T, size) ==
    (size + size_of(SizedAs(T)) - 1) \div size_of(SizedAs(T))

element_count(T, size) == size \div size_of(SizedAs(T))

\* FaceV1Reader::from_reader after the FaceV1 has been read.
FaceV1_to_Face(v) ==
    [plane_index |-> as_u32(v.plane_index),
     side |-> as_u32(v.side),
     edge_list_index |-> v.edge_list_index,
     edge_count |-> as_u32(v.edge_count),
     texture_info_index |-> as_u32(v.texture_info_index),
     type_light |-> v.type_light,
     base_light |-> v.base_light,
     light |-> v.light,
     lightmap |-> v.lightmap]

\* EdgeV1Reader::from_reader after the EdgeV1 has been read.
EdgeV1_to_Edge(v) == [v0 |-> as_u32(v.v0), v1 |-> as_u32(v.v1)]

\* What from_reader makes of the result r of the read_le it calls.
from_read(T, r) ==
    IF ~r.ok THEN r
    ELSE CASE T = "FaceV1Reader" ->
                [ok |-> TRUE, val |-> FaceV1_to_Face(r.val), pos |-> r.pos]
           [] T = "EdgeV1Reader" ->
                [ok |-> TRUE, val |-> EdgeV1_to_Edge(r.val), pos |-> r.pos]
           [] T \in {"u8", "i32"} ->
                [ok |-> TRUE, val |-> r.val.value, pos |-> r.pos]
           [] OTHER -> r

from_reader(T, f, p) == from_read(T, read_le(SizedAs(T), f, p))

\* The loop of read_vec from position p: the elements lie one after the
\* other, so the loop reads as many of the count elements as fit before the
\* end of f and fails at the first one that does not.
\* The number of elements of size bytes that lie between p and the end.
Fit(f, p, size) == IF p >= Len(f) THEN 0 ELSE (Len(f) - p) \div size

\* The first n elements from position p, size bytes each.
first_elements(T, f, p, size, n) ==
    [i \in 1..n |-> from_reader(T, f, p + (i - 1) * size).val]

\* A loop that stops at the end of the input and returns what it has read.
read_n_of_lenient(T, f, p, count, size, n) ==
    [ok |-> TRUE, val |-> first_elements(T, f, p, size, n), pos |-> p + n * size]

\* The loop with n the number of elements it reads before it ends.
read_n_of(T, f, p, count, size, n) ==
    IF n = count
    THEN [ok |-> TRUE, val |-> first_elements(T, f, p, size, n),
          pos |-> p + n * size]
    ELSE [ok |-> FALSE, err |-> UnexpectedEof, pos |-> p + n * size,
          val |-> first_elements(T, f, p, size, n)]

read_sized(T, f, p, count, size) ==
    read_n_of(T, f, p, count, size, Min(count, Fit(f, p, size)))

read_elements(T, f, p, count) ==
    read_sized(T, f, p, count, WireSize(Layout(SizedAs(T))))

Seek(at) == [op |-> "seek", at |-> at]

\* A run of reads from position at: n elements were read, and ok tells
\* whether the run ended because all wanted elements were there.
Read(what, at, n, ok) == [op |-> "read", what |-> what, at |-> at, n |-> n, ok |-> ok]

\* read_vec: the result, the cursor it leaves and the operations it issued.
\* The result r of the loop together with the operations read_vec issued.
read_vec_of(T, offset, r) ==
    IF r.ok
    THEN [ok |-> TRUE, val |-> r.val, pos |-> r.pos,
          log |-> << Seek(offset), Read(T, offset, Len(r.val), TRUE) >>]
    ELSE [ok |-> FALSE, err |-> r.err, pos |-> r.pos,
          log |-> << Seek(offset), Read(T, offset, Len(r.val), FALSE) >>]

read_vec(f, entry, T) ==
    read_vec_of(T, entry.offset,
                read_elements(T, f, entry.offset, element_count(T, entry.size)))

(***************************************************************************)
(* parse_entities (lib.rs).  Text is a sequence of character codes.        *)
(***************************************************************************)
LF == 10

CR == 13

SPACE == 32

QUOTE == 34

LBRACE == 123

RBRACE == 125

\* quake_text::bytestr::to_unicode: one character per byte.  On the bytes
\* the specifications enumerate (0, 9, 10, 13 and printable ASCII) the
\* character has the code of the byte.
to_unicode(bytes) == bytes

\* The characters 0..255 for which char::is_whitespace holds (White_Space).
White_Space == {9, 10, 11, 12, 13, 32, 133, 160}

\* The first index from `from` on at which c occurs in s, or 0.
RECURSIVE find_char(_, _, _)
find_char(s, c, from) ==
    IF from > Len(s) THEN 0
    ELSE IF s[from] = c THEN from
    ELSE find_char(s, c, from + 1)

\* str::lines: the text cut at every LF, one CR before the LF dropped; no
\* line for the empty rest after the last LF.
strip_suffix_cr(s) ==
    IF s # <<>> /\ s[Len(s)] = CR THEN SubSeq(s, 1, Len(s) - 1) ELSE s

RECURSIVE lines_from(_, _)
\* The lines of s from index `from` on, nl being the next LF (0: none).
lines_cut(s, from, nl) ==
    IF nl = 0 THEN << SubSeq(s, from, Len(s)) >>
    ELSE << strip_suffix_cr(SubSeq(s, from, nl - 1)) >> \o lines_from(s, nl + 1)

lines_from(s, from) ==
    IF from > Len(s) THEN <<>> ELSE lines_cut(s, from, find_char(s, LF, from))

lines(s) == lines_from(s, 1)

\* The text without its leading characters that are in drop.
RECURSIVE trim_start_in(_, _)
trim_start_in(s, drop) ==
    IF s # <<>> /\ s[1] \in drop THEN trim_start_in(Tail(s), drop) ELSE s

\* The text without its trailing characters that are in drop.
RECURSIVE trim_end_in(_, _)
trim_end_in(s, drop) ==
    IF s # <<>> /\ s[Len(s)] \in drop
    THEN trim_end_in(SubSeq(s, 1, Len(s) - 1), drop) ELSE s

\* str::trim
trim(s) == trim_end_in(trim_start_in(s, White_Space), White_Space)

\* str::trim_matches(c): every leading and every trailing c is removed.
trim_matches(s, c) == trim_end_in(trim_start_in(s, {c}), {c})

\* The first index at which pat occurs in s, or 0.
RECURSIVE find_str(_, _, _)
find_str(s, pat, from) ==
    IF from + Len(pat) - 1 > Len(s) THEN 0
    ELSE IF SubSeq(s, from, from + Len(pat) - 1) = pat THEN from
    ELSE find_str(s, pat, from + 1)

\* str::split_once(pat).unwrap_or_default(): the parts before and after the
\* first occurrence of pat, or two empty strings when pat does not occur.
split_at_or_default(s, pat, i) ==
    IF i = 0 THEN << <<>>, <<>> >>
    ELSE << SubSeq(s, 1, i - 1), SubSeq(s, i + Len(pat), Len(s)) >>

split_once_or_default(s, pat) == split_at_or_default(s, pat, find_str(s, pat, 1))

\* HashMap<String, String>
HashMap_new == [k \in {} |-> <<>>]

insert(m, k, v) == [x \in (DOMAIN m) \cup {k} |-> IF x = k THEN v ELSE m[x]]

\* A destructuring that takes the two parts in the other order.
key_value_swapped(line) ==
    << split_once_or_default(trim_matches(line, QUOTE), <<QUOTE, SPACE, QUOTE>>)[2],
       split_once_or_default(trim_matches(line, QUOTE), <<QUOTE, SPACE, QUOTE>>)[1] >>

\* The key and the value parse_entities takes from a field line.
key_value(line) ==
    split_once_or_default(trim_matches(line, QUOTE), <<QUOTE, SPACE, QUOTE>>)

\* current_entity.insert(key.to_string(), value.to_string())
insert_pair(m, kv) == insert(m, kv[1], kv[2])

\* The match on the trimmed line.
entity_match(st, line) ==
    IF line = <<LBRACE>> THEN [st EXCEPT !.current_entity = HashMap_new]
    ELSE IF line = <<RBRACE>>
    THEN [st EXCEPT !.entities = Append(@, st.current_entity)]
    ELSE [st EXCEPT !.current_entity = insert_pair(@, key_value(line))]

\* A match that keeps the fields of the earlier block at an opening brace.
entity_match_no_reset(st, line) ==
    IF line = <<LBRACE>> THEN st
    ELSE IF line = <<RBRACE>>
    THEN [st EXCEPT !.entities = Append(@, st.current_entity)]
    ELSE [st EXCEPT !.current_entity = insert_pair(@, key_value(line))]

\* A loop body that keeps the fields of the earlier block at an opening brace.
entity_line_no_reset(st, raw) == entity_match_no_reset(st, trim(raw))

\* The body of the loop over the lines: st holds entities and current_entity.
entity_line(st, raw) == entity_match(st, trim(raw))

\* The loop over the first k lines of ls.
RECURSIVE entity_lines(_, _)
entity_lines(ls, k) ==
    IF k = 0 THEN [entities |-> <<>>, current_entity |-> HashMap_new]
    ELSE Let1(LAMBDA st : entity_line(st, ls[k]), entity_lines(ls, k - 1))

parse_entities(bytes) ==
    Let1(LAMBDA ls : Ok(entity_lines(ls, Len(ls)).entities),
         lines(to_unicode(bytes)))

(***************************************************************************)
(* parse_textures (lib.rs): the texture directory and the texture headers. *)
(***************************************************************************)
NAME_PAD == 16

CountOutOfRange == "count out of range of usize"

\* TextureHeader::read at position p: count, then count offsets.  A count
\* below zero is no length and the read fails; no input of the
\* specifications has one.
header_of_offsets(p, count, r) ==
    IF r.ok
    THEN [ok |-> TRUE, val |-> [count |-> count, offsets |-> r.val],
          pos |-> r.pos, n |-> 1 + Len(r.val)]
    ELSE [ok |-> FALSE, err |-> r.err, pos |-> p, n |-> 1 + Len(r.val)]

header_of_count(f, p, c) ==
    IF ~c.ok THEN [ok |-> FALSE, err |-> c.err, pos |-> p, n |-> 0]
    ELSE IF c.val.value < 0
    THEN [ok |-> FALSE, err |-> CountOutOfRange, pos |-> p, n |-> 1]
    ELSE header_of_offsets(p, c.val.value,
                           read_elements("i32", f, c.pos, c.val.value))

read_TextureHeader(f, p) == header_of_count(f, p, read_le("i32", f, p))

\* Texture::read at position p.  The name is a NullString: the bytes up to
\* the first zero byte, wherever it is; pad_size_to moves the cursor to
\* p + 16 when the name and its zero byte took less.
\* The texture whose name ends before the zero byte at index z (0: no zero
\* byte) and whose other fields were read as t.
texture_of(f, p, z, t) ==
    IF z = 0 \/ ~t.ok
    THEN [ok |-> FALSE, err |-> UnexpectedEof, pos |-> p]
    ELSE [ok |-> TRUE,
          val |-> [name |-> SubSeq(f, p + 1, z - 1),
                   width |-> t.val.width, height |-> t.val.height,
                   offset1 |-> t.val.offset1, offset2 |-> t.val.offset2,
                   offset4 |-> t.val.offset4, offset8 |-> t.val.offset8],
          pos |-> t.pos]

texture_named(f, p, z) ==
    texture_of(f, p, z, read_le("TextureFields", f, Max(z, p + NAME_PAD)))

read_Texture(f, p) == texture_named(f, p, find_char(f, 0, p + 1))

\* texture.offsetN += abs_offset as u32, for sums that fit 32 bits.
add_assign(a, b) == a + b

\* The loop of parse_textures over header.offsets.
\* The four += of the loop body.
rebase(t, abs_offset) ==
    [t EXCEPT !.offset1 = add_assign(@, abs_offset),
              !.offset2 = add_assign(@, abs_offset),
              !.offset4 = add_assign(@, abs_offset),
              !.offset8 = add_assign(@, abs_offset)]

RECURSIVE texture_slots(_, _, _, _, _, _)
RECURSIVE texture_slots_from_zero(_, _, _, _, _, _)
\* The loop body for a slot with rel_offset > 0, r being the texture read.
texture_slot(f, base_offset, offsets, abs_offset, r, acc, ops) ==
    IF ~r.ok
    THEN [ok |-> FALSE, err |-> r.err, pos |-> r.pos,
          log |-> ops \o << Seek(abs_offset),
                            Read("Texture", abs_offset, 0, FALSE) >>]
    ELSE texture_slots(f, base_offset, Tail(offsets), r.pos,
                       Append(acc, rebase(r.val, abs_offset)),
                       ops \o << Seek(abs_offset),
                                 Read("Texture", abs_offset, 1, TRUE) >>)

\* A loop that skips a slot only when its offset is below zero.
texture_slots_from_zero(f, base_offset, offsets, p, acc, ops) ==
    IF offsets = <<>>
    THEN [ok |-> TRUE, val |-> acc, pos |-> p, log |-> ops]
    ELSE IF Head(offsets) < 0
    THEN texture_slots_from_zero(f, base_offset, Tail(offsets), p, acc, ops)
    ELSE texture_slot(f, base_offset, offsets, base_offset + Head(offsets),
                      read_Texture(f, base_offset + Head(offsets)), acc, ops)

texture_slots(f, base_offset, offsets, p, acc, ops) ==
    IF offsets = <<>>
    THEN [ok |-> TRUE, val |-> acc, pos |-> p, log |-> ops]
    ELSE IF Head(offsets) <= 0
    THEN texture_slots(f, base_offset, Tail(offsets), p, acc, ops)
    ELSE texture_slot(f, base_offset, offsets, base_offset + Head(offsets),
                      read_Texture(f, base_offset + Head(offsets)), acc, ops)

textures_of(f, base_offset, header) ==
    IF ~header.ok
    THEN [ok |-> FALSE, err |-> header.err, pos |-> header.pos,
          log |-> << Seek(base_offset),
                     Read("TextureHeader", base_offset, header.n, FALSE) >>]
    ELSE texture_slots(f, base_offset, header.val.offsets, header.pos, <<>>,
                       << Seek(base_offset),
                          Read("TextureHeader", base_offset, header.n, TRUE) >>)

parse_textures(f, base_offset) ==
    textures_of(f, base_offset, read_TextureHeader(f, base_offset))

(***************************************************************************)
(* helpers.rs: read_texture_image and the palette.                         *)
(***************************************************************************)
\* A panic: the call does not return to its caller.
Panic(msg) == [ok |-> FALSE, panic |-> msg]

IndexOutOfBounds == "index out of bounds"

PALETTE ==
    <<
       0, 0, 0, 15, 15, 15, 31, 31, 31, 47, 47, 47, 63, 63, 63, 75, 75, 75, 91, 91, 91, 107, 107, 107,
       123, 123, 123, 139, 139, 139, 155, 155, 155, 171, 171, 171, 187, 187, 187, 203, 203, 203, 219, 219, 219, 235, 235, 235,
       15, 11, 7, 23, 15, 11, 31, 23, 11, 39, 27, 15, 47, 35, 19, 55, 43, 23, 63, 47, 23, 75, 55, 27,
       83, 59, 27, 91, 67, 31, 99, 75, 31, 107, 83, 31, 115, 87, 31, 123, 95, 35, 131, 103, 35, 143, 111, 35,
       11, 11, 15, 19, 19, 27, 27, 27, 39, 39, 39, 51, 47, 47, 63, 55, 55, 75, 63, 63, 87, 71, 71, 103,
       79, 79, 115, 91, 91, 127, 99, 99, 139, 107, 107, 151, 115, 115, 163, 123, 123, 175, 131, 131, 187, 139, 139, 203,
       0, 0, 0, 7, 7, 0, 11, 11, 0, 19, 19, 0, 27, 27, 0, 35, 35, 0, 43, 43, 7, 47, 47, 7,
       55, 55, 7, 63, 63, 7, 71, 71, 7, 75, 75, 11, 83, 83, 11, 91, 91, 11, 99, 99, 11, 107, 107, 15,
       7, 0, 0, 15, 0, 0, 23, 0, 0, 31, 0, 0, 39, 0, 0, 47, 0, 0, 55, 0, 0, 63, 0, 0,
       71, 0, 0, 79, 0, 0, 87, 0, 0, 95, 0, 0, 103, 0, 0, 111, 0, 0, 119, 0, 0, 127, 0, 0,
       19, 19, 0, 27, 27, 0, 35, 35, 0, 47, 43, 0, 55, 47, 0, 67, 55, 0, 75, 59, 7, 87, 67, 7,
       95, 71, 7, 107, 75, 11, 119, 83, 15, 131, 87, 19, 139, 91, 19, 151, 95, 27, 163, 99, 31, 175, 103, 35,
       35, 19, 7, 47, 23, 11, 59, 31, 15, 75, 35, 19, 87, 43, 23, 99, 47, 31, 115, 55, 35, 127, 59, 43,
       143, 67, 51, 159, 79, 51, 175, 99, 47, 191, 119, 47, 207, 143, 43, 223, 171, 39, 239, 203, 31, 255, 243, 27,
       11, 7, 0, 27, 19, 0, 43, 35, 15, 55, 43, 19, 71, 51, 27, 83, 55, 35, 99, 63, 43, 111, 71, 51,
       127, 83, 63, 139, 95, 71, 155, 107, 83, 167, 123, 95, 183, 135, 107, 195, 147, 123, 211, 163, 139, 227, 179, 151,
       171, 139, 163, 159, 127, 151, 147, 115, 135, 139, 103, 123, 127, 91, 111, 119, 83, 99, 107, 75, 87, 95, 63, 75,
       87, 55, 67, 75, 47, 55, 67, 39, 47, 55, 31, 35, 43, 23, 27, 35, 19, 19, 23, 11, 11, 15, 7, 7,
       187, 115, 159, 175, 107, 143, 163, 95, 131, 151, 87, 119, 139, 79, 107, 127, 75, 95, 115, 67, 83, 107, 59, 75,
       95, 51, 63, 83, 43, 55, 71, 35, 43, 59, 31, 35, 47, 23, 27, 35, 19, 19, 23, 11, 11, 15, 7, 7,
       219, 195, 187, 203, 179, 167, 191, 163, 155, 175, 151, 139, 163, 135, 123, 151, 123, 111, 135, 111, 95, 123, 99, 83,
       107, 87, 71, 95, 75, 59, 83, 63, 51, 67, 51, 39, 55, 43, 31, 39, 31, 23, 27, 19, 15, 15, 11, 7,
       111, 131, 123, 103, 123, 111, 95, 115, 103, 87, 107, 95, 79, 99, 87, 71, 91, 79, 63, 83, 71, 55, 75, 63,
       47, 67, 55, 43, 59, 47, 35, 51, 39, 31, 43, 31, 23, 35, 23, 15, 27, 19, 11, 19, 11, 7, 11, 7,
       255, 243, 27, 239, 223, 23, 219, 203, 19, 203, 183, 15, 187, 167, 15, 171, 151, 11, 155, 131, 7, 139, 115, 7,
       123, 99, 7, 107, 83, 0, 91, 71, 0, 75, 55, 0, 59, 43, 0, 43, 31, 0, 27, 15, 0, 11, 7, 0,
       0, 0, 255, 11, 11, 239, 19, 19, 223, 27, 27, 207, 35, 35, 191, 43, 43, 175, 47, 47, 159, 47, 47, 143,
       47, 47, 127, 47, 47, 111, 47, 47, 95, 43, 43, 79, 35, 35, 63, 27, 27, 47, 19, 19, 31, 11, 11, 15,
       43, 0, 0, 59, 0, 0, 75, 7, 0, 95, 7, 0, 111, 15, 0, 127, 23, 7, 147, 31, 7, 163, 39, 11,
       183, 51, 15, 195, 75, 27, 207, 99, 43, 219, 127, 59, 227, 151, 79, 231, 171, 95, 239, 191, 119, 247, 211, 139,
       167, 123, 59, 183, 155, 55, 199, 195, 55, 231, 227, 87, 127, 191, 255, 171, 231, 255, 215, 255, 255, 103, 0, 0,
       139, 0, 0, 179, 0, 0, 215, 0, 0, 255, 0, 0, 255, 243, 147, 255, 247, 199, 255, 255, 255, 159, 91, 83
    >>

\* The offset of the mip level of the scale.
offset_of(texture, scale) ==
    CASE scale = "Full" -> texture.offset1
      [] scale = "Half" -> texture.offset2
      [] scale = "Quarter" -> texture.offset4
      [] scale = "Eighth" -> texture.offset8

\* scale_factor: 1., 0.5, 0.25, 0.125, each written as the d of 1/d.
scale_factor(scale) ==
    CASE scale = "Full" -> 1
      [] scale = "Half" -> 2
      [] scale = "Quarter" -> 4
      [] scale = "Eighth" -> 8

\* f32 holds 24 significant bits: an integer below 2^24 is exact.
F32_EXACT == 16777216

\* The distance between neighbouring f32 values at the integer a >= 0.
RECURSIVE ulp(_, _)
ulp(a, u) == IF a \div u < F32_EXACT THEN u ELSE ulp(a, 2 * u)

\* a >= 0 rounded to a multiple of u, to the nearest, a tie to the even one.
round_ties_even(a, u) ==
    IF 2 * (a % u) < u THEN (a \div u) * u
    ELSE IF 2 * (a % u) > u THEN (a \div u + 1) * u
    ELSE IF (a \div u) % 2 = 0 THEN (a \div u) * u
    ELSE (a \div u + 1) * u

\* `v as f32` for an i32 v: the nearest f32, which is an integer.
as_f32(v) ==
    IF v >= 0 THEN round_ties_even(v, ulp(v, 1))
    ELSE 0 - round_ties_even(0 - v, ulp(0 - v, 1))

\* x * scale_factor in f32: exact, the factor being a power of two; the
\* product is the fraction num / den.
mul_f32(x, d) == [num |-> x, den |-> d]

\* `q as u32` for an f32 q: the fraction is dropped and the cast saturates,
\* so a negative q gives 0.
f32_as_u32(q) == IF q.num <= 0 THEN 0 ELSE q.num \div q.den

\* ((n as f32) * scale_factor) as u32
scaled(n, scale) == f32_as_u32(mul_f32(as_f32(n), scale_factor(scale)))

\* An offset into the palette that takes four bytes per colour.
palette_offset_by_four(index) == index * 4

\* let offset = *index as usize * 3
palette_offset(index) == index * 3

\* The three palette accesses of one pixel stay inside the palette.
in_palette(index) == palette_offset(index) + 2 < Len(PALETTE)

\* pixel_colors after the loop over color_indexes.
pixel_colors(color_indexes) ==
    [k \in 1..(Len(color_indexes) * 3) |->
        PALETTE[palette_offset(color_indexes[(k - 1) \div 3 + 1])
                    + ((k - 1) % 3) + 1]]

\* The result for the colour indexes read as r.
image_of(width, height, r) ==
    IF ~r.ok THEN [ok |-> FALSE, err |-> r.err, log |-> r.log]
    ELSE IF \E k \in 1..Len(r.val) : ~in_palette(r.val[k])
    THEN [ok |-> FALSE, panic |-> IndexOutOfBounds, log |-> r.log]
    ELSE [ok |-> TRUE,
          val |-> [width |-> width, height |-> height,
                   data |-> pixel_colors(r.val)],
          log |-> r.log]

\* let size = width * height, for products that fit 32 bits.
image_sized(f, offset, width, height) ==
    image_of(width, height,
             read_vec(f, [offset |-> offset, size |-> width * height], "u8"))

read_texture_image(f, texture, scale) ==
    image_sized(f, offset_of(texture, scale),
                scaled(texture.width, scale), scaled(texture.height, scale))

(***************************************************************************)
(* helpers.rs: the cross-reference helpers.  Indexes count from 0.         *)
(***************************************************************************)
\* slice::get(i): the element, or None past the end.
get(v, i) ==
    IF i < Len(v) THEN [some |-> TRUE, val |-> v[i + 1]] ELSE [some |-> FALSE]

TextureInfoIndexOutOfBounds == "Texture info index out of bounds"

TextureIndexOutOfBounds == "Texture index out of bounds"

\* A lookup that indexes the array and panics past its end.
texture_info_indexed(found) ==
    IF found.some THEN Ok(found.val) ELSE Panic(IndexOutOfBounds)

\* The match on bsp.texture_info.get(..).
texture_info_found(found) ==
    IF found.some THEN Ok(found.val) ELSE Err(TextureInfoIndexOutOfBounds)

get_face_texture_info(bsp, face) ==
    texture_info_found(get(bsp.texture_info, face.texture_info_index))

\* A lookup that reports every failure as a texture index out of bounds.
face_texture_one_error(bsp, info) ==
    IF ~info.ok THEN Err(TextureIndexOutOfBounds)
    ELSE IF get(bsp.textures, info.val.texture_index).some
    THEN Ok(get(bsp.textures, info.val.texture_index).val)
    ELSE Err(TextureIndexOutOfBounds)

\* The `?` on info and the match on bsp.textures.get(..).
face_texture_of_info(bsp, info) ==
    IF ~info.ok THEN info
    ELSE IF get(bsp.textures, info.val.texture_index).some
    THEN Ok(get(bsp.textures, info.val.texture_index).val)
    ELSE Err(TextureIndexOutOfBounds)

get_face_texture(bsp, face) ==
    face_texture_of_info(bsp, get_face_texture_info(bsp, face))

\* A function that returns v and has no error to return.
Returns(v) == [ok |-> TRUE, val |-> v]

\* iter().skip(s).take(c): what is left of the list, at most c entries.
skip_take(v, s, c) == SubSeq(v, s + 1, Min(s + c, Len(v)))

\* bsp.edges[..] of the match does not panic.
edge_in_range(edges, edge_index) ==
    IF edge_index >= 0 THEN edge_index < Len(edges)
    ELSE 0 - edge_index < Len(edges)

\* A sign convention with the two ends exchanged.
vertex_of_edge_flipped(edges, edge_index) ==
    IF edge_index >= 0 THEN edges[edge_index + 1].v1
    ELSE edges[0 - edge_index + 1].v0

\* The match on edge_index >= 0.
vertex_of_edge(edges, edge_index) ==
    IF edge_index >= 0 THEN edges[edge_index + 1].v0
    ELSE edges[0 - edge_index + 1].v1

\* map(..).collect() over the taken entries.
vertice_indexes_of(edges, entries) ==
    IF \E k \in 1..Len(entries) : ~edge_in_range(edges, entries[k])
    THEN Panic(IndexOutOfBounds)
    ELSE Returns([k \in 1..Len(entries) |-> vertex_of_edge(edges, entries[k])])

get_face_vertice_indexes(bsp, face) ==
    vertice_indexes_of(bsp.edges,
                       skip_take(bsp.edge_list, face.edge_list_index,
                                 face.edge_count))

\* map(|vertex_id| bsp.vertices[vertex_id]).collect() over the indexes.
vertices_at(vertices, indexes) ==
    IF ~indexes.ok THEN indexes
    ELSE IF \E k \in 1..Len(indexes.val) : indexes.val[k] >= Len(vertices)
    THEN Panic(IndexOutOfBounds)
    ELSE Returns([k \in 1..Len(indexes.val) |-> vertices[indexes.val[k] + 1]])

get_face_vertices(bsp, face) ==
    vertices_at(bsp.vertices, get_face_vertice_indexes(bsp, face))

(***************************************************************************)
(* BspFile::parse (lib.rs), one action per statement.  A failed statement  *)
(* returns its error through `?`: pc becomes "err" and nothing runs after. *)
(***************************************************************************)
\* A header whose edges and edge_list fields are declared in the other order.
HeaderFields_swapped ==
    << "entities", "planes", "textures", "vertices", "visibility", "nodes",
       "texture_info", "faces", "lightmaps", "clipnodes", "leaves",
       "face_list", "edge_list", "edges", "models" >>

\* The fields of BspHeader in declaration order.
HeaderFields ==
    << "entities", "planes", "textures", "vertices", "visibility", "nodes",
       "texture_info", "faces", "lightmaps", "clipnodes", "leaves",
       "face_list", "edges", "edge_list", "models" >>

\* BspHeader::read at position p: one Entry per field.
EntrySize == WireSize(Layout("Entry"))

HeaderIndex(nm) == CHOOSE k \in 1..Len(HeaderFields) : HeaderFields[k] = nm

\* A directory read that rejects an entry whose offset lies beyond the end.
read_BspHeader_bounded(f, p) ==
    IF \/ p + Len(HeaderFields) * EntrySize > Len(f)
       \/ \E k \in 1..Len(HeaderFields) :
              read_le("Entry", f, p + (k - 1) * EntrySize).val.offset > Len(f)
    THEN [ok |-> FALSE, err |-> UnexpectedEof, pos |-> p,
          log |-> << Read("BspHeader", p, Fit(f, p, EntrySize), FALSE) >>]
    ELSE [ok |-> TRUE,
          val |-> [nm \in {HeaderFields[k] : k \in 1..Len(HeaderFields)} |->
                     read_le("Entry", f, p + (HeaderIndex(nm) - 1) * EntrySize).val],
          pos |-> p + Len(HeaderFields) * EntrySize,
          log |-> << Read("BspHeader", p, Len(HeaderFields), TRUE) >>]

read_BspHeader(f, p) ==
    IF p + Len(HeaderFields) * EntrySize > Len(f)
    THEN [ok |-> FALSE, err |-> UnexpectedEof, pos |-> p,
          log |-> << Read("BspHeader", p, Fit(f, p, EntrySize), FALSE) >>]
    ELSE [ok |-> TRUE,
          val |-> [nm \in {HeaderFields[k] : k \in 1..Len(HeaderFields)} |->
                     read_le("Entry", f, p + (HeaderIndex(nm) - 1) * EntrySize).val],
          pos |-> p + Len(HeaderFields) * EntrySize,
          log |-> << Read("BspHeader", p, Len(HeaderFields), TRUE) >>]

\* The version-specific readers of the match on version.
face_reader_wide(version) == "Face"

face_reader(version) == IF version = "V29" THEN "FaceV1Reader" ELSE "Face"

edge_reader(version) == IF version = "V29" THEN "EdgeV1Reader" ELSE "Edge"

\* `let name = step?;` followed by the statement next.
Bind(next, name, step) ==
    \E r \in {step} :
    /\ log' = log \o r.log
    /\ pos' = r.pos
    /\ IF r.ok
       THEN /\ pc' = next
            /\ loc' = (name :> r.val) @@ loc
            /\ result' = result
       ELSE /\ pc' = "err"
            /\ loc' = loc
            /\ result' = Err(r.err)
    /\ UNCHANGED <<file, inp, out>>

\* BspVersion::try_from(version)? on the four bytes read.
\* A resolution whose failure falls back to the older format.
resolved_or_v29(p, v) ==
    [ok |-> TRUE, val |-> IF v.ok THEN v.val ELSE "V29", pos |-> p + 4,
     log |-> << Read("magic", p, 1, TRUE) >>]

\* BspVersion::try_from(bytes)? after the four bytes at position p were read.
resolved(p, v) ==
    IF v.ok
    THEN [ok |-> TRUE, val |-> v.val, pos |-> p + 4,
          log |-> << Read("magic", p, 1, TRUE) >>]
    ELSE [ok |-> FALSE, err |-> v.err, pos |-> p + 4,
          log |-> << Read("magic", p, 1, TRUE) >>]

version_of(p, b) ==
    IF ~b.ok
    THEN [ok |-> FALSE, err |-> b.err, pos |-> b.pos,
          log |-> << Read("magic", p, 0, FALSE) >>]
    ELSE resolved(p, try_from(b.val))

\* r.read_exact(&mut version)?; BspVersion::try_from(version)?
read_version(f, p) == version_of(p, read_exact(f, p, 4))

ReadVersion ==
    /\ pc = "version"
    /\ Bind("header", "version", read_version(file, pos))

ReadHeader ==
    /\ pc = "header"
    /\ Bind("entities", "h", read_BspHeader(file, pos))

ReadEntities ==
    /\ pc = "entities"
    /\ \E r \in {read_vec(file, loc.h.entities, "u8")} :
           Bind("planes", "entities",
                IF r.ok THEN [r EXCEPT !.val = parse_entities(r.val).val] ELSE r)

ReadPlanes ==
    /\ pc = "planes"
    /\ Bind("textures", "planes", read_vec(file, loc.h.planes, "Plane"))

ParseTextures ==
    /\ pc = "textures"
    /\ Bind("texture_info", "textures", parse_textures(file, loc.h.textures.offset))

ReadTextureInfo ==
    /\ pc = "texture_info"
    /\ Bind("vertices", "texture_info",
            read_vec(file, loc.h.texture_info, "TextureInfo"))

ReadVertices ==
    /\ pc = "vertices"
    /\ Bind("lightmaps", "vertices", read_vec(file, loc.h.vertices, "Vertex"))

ReadLightmaps ==
    /\ pc = "lightmaps"
    /\ Bind("edge_list", "lightmaps", read_vec(file, loc.h.lightmaps, "u8"))

ReadEdgeList ==
    /\ pc = "edge_list"
    /\ Bind("models", "edge_list", read_vec(file, loc.h.edge_list, "i32"))

ReadModels ==
    /\ pc = "models"
    /\ Bind("faces", "models", read_vec(file, loc.h.models, "Model"))

ReadFaces ==
    /\ pc = "faces"
    /\ Bind("edges", "faces",
            read_vec(file, loc.h.faces, face_reader(loc.version)))

ReadEdges ==
    /\ pc = "edges"
    /\ Bind("build", "edges",
            read_vec(file, loc.h.edges, edge_reader(loc.version)))

\* Ok(BspFile { .. })
Build ==
    /\ pc = "build"
    /\ pc' = "done"
    /\ result' = Ok([version |-> loc.version, header |-> loc.h,
                     edge_list |-> loc.edge_list, edges |-> loc.edges,
                     entities |-> loc.entities, faces |-> loc.faces,
                     lightmaps |-> loc.lightmaps, models |-> loc.models,
                     planes |-> loc.planes, texture_info |-> loc.texture_info,
                     textures |-> loc.textures, vertices |-> loc.vertices])
    /\ UNCHANGED <<file, pos, loc, log, inp, out>>

(***************************************************************************)
(* Input files.  A file is the magic, the directory and ten section bodies *)
(* laid out one after the other from byte 124 on.                          *)
(***************************************************************************)
MaxRecords == 2

\* v as w little-endian bytes (two's complement for v < 0).
to_le_bytes(v, w) ==
    [i \in 1..w |->
        IF v >= 0 THEN (v \div (256 ^ (i - 1))) % 256
        ELSE 255 - (((-v - 1) \div (256 ^ (i - 1))) % 256)]

\* The sequences of ss one after the other.
RECURSIVE FlattenTo(_, _)
FlattenTo(ss, k) == IF k = 0 THEN <<>> ELSE FlattenTo(ss, k - 1) \o ss[k]

Flatten(ss) == Let1(LAMBDA v : FlattenTo(v, Len(v)), ss)

\* len bytes below 128 that differ from place to place.
Fill(k, len) == [j \in 1..len |-> (j * 5 + k * 11) % 128]

\* "{", "a" "b", "}", "{", "c" "d", "}" on six lines.
EntitiesText ==
    << 123, 10, 34, 97, 34, 32, 34, 98, 34, 10, 125, 10,
       123, 10, 34, 99, 34, 32, 34, 100, 34, 10, 125, 10 >>

\* The i-th face and edge of an input file; 16-bit fields reach 65535.
FaceSample(i) ==
    [plane_index |-> IF i % 2 = 1 THEN 65535 ELSE 258,
     side |-> i % 2,
     edge_list_index |-> 70000 * i,
     edge_count |-> IF i % 2 = 1 THEN 3 ELSE 32768,
     texture_info_index |-> 255 + i,
     type_light |-> i, base_light |-> 255, light |-> <<i, 100>>,
     lightmap |-> 66000 + i]

EdgeSample(i) == [v0 |-> IF i % 2 = 1 THEN 65535 ELSE 1, v1 |-> 256 * i]

\* A face and an edge on the wire; w16 is the width of the narrow fields.
FaceBytes(fc, w16) ==
    to_le_bytes(fc.plane_index, w16) \o to_le_bytes(fc.side, w16)
        \o to_le_bytes(fc.edge_list_index, 4) \o to_le_bytes(fc.edge_count, w16)
        \o to_le_bytes(fc.texture_info_index, w16)
        \o <<fc.type_light, fc.base_light>> \o fc.light
        \o to_le_bytes(fc.lightmap, 4)

EdgeBytes(e, w16) == to_le_bytes(e.v0, w16) \o to_le_bytes(e.v1, w16)

\* A texture header: the name, zero bytes up to 16, width, height, offsets.
TextureBytes(name, width, height) ==
    name \o [i \in 1..(NAME_PAD - Len(name)) |-> 0]
        \o to_le_bytes(width, 4) \o to_le_bytes(height, 4)
        \o to_le_bytes(40, 4) \o to_le_bytes(40 + width * height, 4)
        \o to_le_bytes(50 + width * height, 4)
        \o to_le_bytes(60 + width * height, 4)

\* A texture directory of three slots, the second one empty.
TexturesBody ==
    to_le_bytes(3, 4) \o to_le_bytes(16, 4) \o to_le_bytes(-1, 4)
        \o to_le_bytes(56, 4)
        \o TextureBytes(<<109, 49>>, 16, 8) \o TextureBytes(<<119>>, 4, 4)

\* The decoded sections in the order their bodies lie in the file.
Bodies == << "entities", "planes", "textures", "vertices", "texture_info",
             "faces", "lightmaps", "edges", "edge_list", "models" >>

\* The sections of fixed-size records and the wire size of their records.
RecordSize(sec, wide) ==
    CASE sec = "planes" -> 20
      [] sec = "vertices" -> 12
      [] sec = "texture_info" -> 40
      [] sec = "models" -> 64
      [] sec = "edge_list" -> 4
      [] sec = "lightmaps" -> 1
      [] sec = "faces" -> IF wide THEN 28 ELSE 20
      [] sec = "edges" -> IF wide THEN 8 ELSE 4

FixedSections ==
    {"planes", "vertices", "texture_info", "models", "edge_list", "lightmaps",
     "faces", "edges"}

\* What an input file is made from: the magic, the record count n of every
\* fixed-size section, the section sec whose entry is r bytes longer than
\* its n records, the length the file is cut to (-1: not cut), and the
\* section far whose entry points at the last byte of the file instead of
\* its body.
Body(prm, k) ==
    LET sec == Bodies[k]
        wide == prm.magic = <<66, 83, 80, 50>>
        extra == IF prm.sec = sec THEN Fill(k + 1, prm.r) ELSE <<>>
    IN  CASE sec = "entities" -> EntitiesText
          [] sec = "textures" -> TexturesBody
          [] sec = "faces" ->
                Flatten([i \in 1..prm.n |->
                    FaceBytes(FaceSample(i), IF wide THEN 4 ELSE 2)]) \o extra
          [] sec = "edges" ->
                Flatten([i \in 1..prm.n |->
                    EdgeBytes(EdgeSample(i), IF wide THEN 4 ELSE 2)]) \o extra
          [] OTHER -> Fill(k, prm.n * RecordSize(sec, wide)) \o extra

RECURSIVE BodyOffset(_, _)
BodyOffset(prm, k) ==
    IF k = 1 THEN 124 ELSE BodyOffset(prm, k - 1) + Len(Body(prm, k - 1))

\* The directory: the entries of the decoded sections point at their
\* bodies, the entries of the other sections hold other numbers.
Directory(prm) ==
    Flatten([j \in 1..Len(HeaderFields) |->
        IF \E k \in 1..Len(Bodies) : Bodies[k] = HeaderFields[j]
        THEN LET k == CHOOSE k \in 1..Len(Bodies) : Bodies[k] = HeaderFields[j]
             IN  to_le_bytes(IF prm.far = Bodies[k]
                             THEN BodyOffset(prm, Len(Bodies) + 1) - 1 + prm.beyond
                             ELSE BodyOffset(prm, k), 4)
                    \o to_le_bytes(Len(Body(prm, k)), 4)
        ELSE to_le_bytes(1000 + j, 4) \o to_le_bytes(3 * j, 4)])

MkFile(prm) ==
    LET whole == prm.magic \o Directory(prm)
                    \o Flatten([k \in 1..Len(Bodies) |-> Body(prm, k)])
    IN  IF prm.cut < 0 THEN whole ELSE SubSeq(whole, 1, Min(prm.cut, Len(whole)))

V29Magic == <<29, 0, 0, 0>>

BSP2Magic == <<66, 83, 80, 50>>

\* Magics that are not recognised, some of them one byte off.
BadMagics ==
    { <<0, 0, 0, 0>>, <<29, 0, 0, 1>>, <<30, 0, 0, 0>>, <<0, 0, 0, 29>>,
      <<66, 83, 80, 51>>, <<66, 83, 80, 0>>, <<50, 80, 83, 66>>,
      <<255, 255, 255, 255>> }

Prm(magic, n, sec, r, cut) ==
    [magic |-> magic, n |-> n, sec |-> sec, r |-> r, cut |-> cut,
     far |-> "none", beyond |-> 0]

\* A whole file whose entry of the section sec starts at the last byte.
Far(magic, sec) == [Prm(magic, 1, "none", 0, -1) EXCEPT !.far = sec]

\* A whole file of n records per section whose entry of the section sec
\* starts six bytes past the end of the file.
Outside(magic, sec, n) ==
    [Prm(magic, n, "none", 0, -1) EXCEPT !.far = sec, !.beyond = 7]

\* Every length a whole file of one record per section can be cut to at a
\* boundary of the structure: inside the magic, inside the directory, and
\* just before, at and just after the start of every body.
CutPoints(magic) ==
    LET prm == Prm(magic, 1, "none", 0, -1)
    IN  {0, 3, 4, 5, 63, 123, 124}
            \cup UNION {{BodyOffset(prm, k) + d : d \in {1, 7, 17, 19, 39, 57}}
                          : k \in 1..Len(Bodies)}

Inputs ==
    {Prm(m, 1, "none", 0, -1) : m \in BadMagics}
      \cup {Prm(m, n, sec, r, -1) :
              m \in {V29Magic, BSP2Magic}, n \in 0..MaxRecords,
              sec \in FixedSections, r \in {0, 1, 3}}
      \cup UNION {{Prm(m, 1, "none", 0, c) : c \in CutPoints(m)}
                    : m \in {V29Magic, BSP2Magic} \cup {<<29, 0, 0, 1>>}}
      \cup {Far(m, Bodies[k]) : m \in {V29Magic, BSP2Magic},
                                k \in 1..Len(Bodies)}
      \cup {Outside(m, Bodies[k], n) : m \in {V29Magic, BSP2Magic},
                                       k \in 1..Len(Bodies), n \in 0..1}

NotReturned == [returned |-> FALSE]

Idle == <<>>

Init ==
    /\ \E prm \in Inputs : file = MkFile(prm)
    /\ pos = 0
    /\ pc = "version"
    /\ loc = <<>>
    /\ result = NotReturned
    /\ log = <<>>
    /\ inp = Idle
    /\ out = Idle

Next ==
    \/ ReadVersion
    \/ ReadHeader
    \/ ReadEntities
    \/ ReadPlanes
    \/ ParseTextures
    \/ ReadTextureInfo
    \/ ReadVertices
    \/ ReadLightmaps
    \/ ReadEdgeList
    \/ ReadModels
    \/ ReadFaces
    \/ ReadEdges
    \/ Build

Spec == Init /\ [][Next]_vars

(***************************************************************************)
(* BspVersion::try_from on its own: two magics are resolved side by side.  *)
(***************************************************************************)
VersionBytes == {0, 1, 29, 50, 66, 80, 83, 255}

Magics == {<<a, b, c, d>> : a \in VersionBytes, b \in VersionBytes,
                            c \in VersionBytes, d \in VersionBytes}

InitVersion ==
    /\ inp \in Magics \X (BadMagics \cup {V29Magic, BSP2Magic})
    /\ out = Idle
    /\ pc = "call"
    /\ file = <<>>
    /\ pos = 0
    /\ loc = <<>>
    /\ result = NotReturned
    /\ log = <<>>

CallTryFrom ==
    /\ pc = "call"
    /\ pc' = "returned"
    /\ out' = << try_from(inp[1]), try_from(inp[2]) >>
    /\ UNCHANGED <<file, pos, loc, result, log, inp>>

NextVersion == CallTryFrom

SpecVersion == InitVersion /\ [][NextVersion]_vars

\* C1: the magic 29,0,0,0 resolves to V29, the magic "BSP2" (66,83,80,50)
\* resolves to BSP2, and every other four bytes resolve to an error.
C1_VersionResolution ==
    pc = "returned" =>
        \A i \in 1..2 :
            /\ inp[i] = <<29, 0, 0, 0>> => out[i] = Ok("V29")
            /\ inp[i] = <<66, 83, 80, 50>> => out[i] = Ok("BSP2")
            /\ inp[i] \notin {<<29, 0, 0, 0>>, <<66, 83, 80, 50>>} => ~out[i].ok

C1_Witness ==
    /\ pc = "returned"
    /\ inp = << <<66, 83, 80, 50>>, <<29, 0, 0, 1>> >>
    /\ out[1] = Ok("BSP2")
    /\ ~out[2].ok

\* C3 as claimed: the error of an unrecognised magic carries the four bytes,
\* so two different unrecognised magics yield different errors.
C3_ErrorCarriesBytes ==
    (/\ pc = "returned"
     /\ inp[1] # inp[2]
     /\ ~out[1].ok
     /\ ~out[2].ok) => out[1] # out[2]

\* C3 as amended: the error of an unrecognised magic is the fixed message
\* "Unsupported BSP version" and nothing else, so any two unrecognised magics
\* yield the same error.
C3_ErrorIsFixedMessage ==
    pc = "returned" =>
        \A i \in 1..2 :
            inp[i] \notin {<<29, 0, 0, 0>>, <<66, 83, 80, 50>>}
                => out[i] = [ok |-> FALSE, err |-> "Unsupported BSP version"]

C3_Witness ==
    /\ pc = "returned"
    /\ inp = << <<29, 0, 0, 1>>, <<66, 83, 80, 51>> >>
    /\ ~out[1].ok
    /\ out[1] = out[2]

(***************************************************************************)
(* What the claims about BspFile::parse are stated in: the bytes of the    *)
(* file taken as numbers, and how far the parse has come.                  *)
(***************************************************************************)
\* The unsigned little-endian value of the 2 and of the 4 bytes after the
\* first `at` bytes of f.
U16At(f, at) == f[at + 1] + 256 * f[at + 2]

U32At(f, at) ==
    f[at + 1] + 256 * f[at + 2] + 65536 * f[at + 3] + 16777216 * f[at + 4]

\* The k-th (offset, size) pair of the directory of f.
PairAt(f, k) ==
    [offset |-> U32At(f, 4 + 8 * (k - 1)), size |-> U32At(f, 8 + 8 * (k - 1))]

\* The statements of the parse in the order they run.
Statements ==
    << "version", "header", "entities", "planes", "textures", "texture_info",
       "vertices", "lightmaps", "edge_list", "models", "faces", "edges",
       "build", "done" >>

StatementIndex(st) == CHOOSE k \in 1..Len(Statements) : Statements[k] = st

\* The local that the statement st binds.
LocalOf(st) == IF st = "header" THEN "h" ELSE st

\* The statement st has run and did not fail: its local is bound.
Passed(st) == LocalOf(st) \in DOMAIN loc

\* The statement st has run: the one before it passed and st is not next.
HasRun(st) ==
    /\ pc # st
    /\ st # "version" => Passed(Statements[StatementIndex(st) - 1])

\* C2: when the first four bytes are not a recognised magic, the parse
\* returns the unsupported-version error having consumed exactly these four
\* bytes: nothing of the directory is read, no seek is made and no section
\* is decoded.
C2_BadMagicFailsAtOnce ==
    (/\ pc # "version"
     /\ Len(file) >= 4
     /\ SubSeq(file, 1, 4) \notin {<<29, 0, 0, 0>>, <<66, 83, 80, 50>>})
    => /\ pc = "err"
       /\ result = [ok |-> FALSE, err |-> "Unsupported BSP version"]
       /\ pos = 4
       /\ Len(log) = 1
       /\ log[1].op = "read" /\ log[1].what = "magic" /\ log[1].at = 0
       /\ \A k \in 1..Len(log) : log[k].op # "seek"
       /\ loc = <<>>

C2_Witness ==
    /\ pc = "err"
    /\ Len(file) > 124
    /\ SubSeq(file, 1, 4) = <<66, 83, 80, 51>>
    /\ pos = 4
    /\ result = Err(UnsupportedVersion)

\* The sections in the order of their directory pairs.
DirectoryOrder ==
    << "entities", "planes", "textures", "vertices", "visibility", "nodes",
       "texture_info", "faces", "lightmaps", "clipnodes", "leaves",
       "face_list", "edges", "edge_list", "models" >>

\* The pair of the directory of f that belongs to the section sec.
PairOf(f, sec) ==
    PairAt(f, CHOOSE k \in 1..Len(DirectoryOrder) : DirectoryOrder[k] = sec)

\* The sections read by read_vec, each with the statement that decodes it.
VecSections ==
    {"entities", "planes", "texture_info", "vertices", "lightmaps",
     "edge_list", "models", "faces", "edges"}

\* The log holds a seek to `at` followed at once by a read at `at`.
SeekThenReadAt(at) ==
    \E k \in 1..(Len(log) - 1) :
        /\ log[k] = [op |-> "seek", at |-> at]
        /\ log[k + 1].op = "read"
        /\ log[k + 1].at = at

\* C7: the directory is read as 15 (offset, size) pairs of little-endian
\* 32-bit values from the bytes 4..123 of the file, the k-th pair bound to
\* the k-th section of the fixed order, and every decoded section is read at
\* the offset of its own pair and holds the bytes found there.
C7_DirectoryOrder ==
    Passed("header") =>
        /\ DOMAIN loc.h = {DirectoryOrder[k] : k \in 1..15}
        /\ \A k \in 1..15 : loc.h[DirectoryOrder[k]] = PairAt(file, k)
        /\ log[2] = [op |-> "read", what |-> "BspHeader", at |-> 4, n |-> 15,
                     ok |-> TRUE]
        /\ \A sec \in VecSections \cup {"textures"} :
              Passed(sec) => SeekThenReadAt(PairOf(file, sec).offset)
        /\ Passed("lightmaps") =>
              loc.lightmaps =
                  SubSeq(file, PairOf(file, "lightmaps").offset + 1,
                         PairOf(file, "lightmaps").offset
                             + PairOf(file, "lightmaps").size)
        /\ Passed("edge_list") =>
              \A i \in 1..Len(loc.edge_list) :
                  loc.edge_list[i] =
                      U32At(file, PairOf(file, "edge_list").offset + 4 * (i - 1))

C7_Witness ==
    /\ pc = "done"
    /\ Len(loc.edge_list) = 2
    /\ Len(loc.lightmaps) = 2
    /\ loc.h.edges # loc.h.edge_list
    /\ loc.h.visibility = [offset |-> 1005, size |-> 15]

\* The file starts with the magic of the wide format.
IsBSP2(f) == Len(f) >= 4 /\ SubSeq(f, 1, 4) = <<66, 83, 80, 50>>

\* The bytes one record of the section sec takes in the file f.
WireSizeOf(f, sec) ==
    CASE sec = "planes" -> 20
      [] sec = "vertices" -> 12
      [] sec = "texture_info" -> 40
      [] sec = "models" -> 64
      [] sec = "edge_list" -> 4
      [] sec = "lightmaps" -> 1
      [] sec = "faces" -> IF IsBSP2(f) THEN 28 ELSE 20
      [] sec = "edges" -> IF IsBSP2(f) THEN 8 ELSE 4

\* C4: a fixed-size section with records of s bytes whose entry has the size
\* n*s + r, 0 <= r < s, and whose bytes are in the file decodes to exactly n
\* records: the r bytes of the remainder are dropped without an error.
C4_WholeRecordsOnly ==
    \A sec \in FixedSections :
        \A n \in 0..(MaxRecords + 3) :
            \A r \in 0..(WireSizeOf(file, sec) - 1) :
                (/\ HasRun(sec)
                 /\ PairOf(file, sec).size = n * WireSizeOf(file, sec) + r
                 /\ PairOf(file, sec).offset + PairOf(file, sec).size
                        <= Len(file))
                => /\ Passed(sec)
                   /\ Len(loc[sec]) = n

C4_Witness ==
    /\ pc = "done"
    /\ PairOf(file, "planes").size = 43
    /\ Len(result.val.planes) = 2

\* The face and the edge that lie in f from byte `at` on, in the narrow
\* layout (20 and 4 bytes) and in the wide layout (28 and 8 bytes).
NarrowFaceAt(f, at) ==
    [plane_index |-> U16At(f, at), side |-> U16At(f, at + 2),
     edge_list_index |-> U32At(f, at + 4), edge_count |-> U16At(f, at + 8),
     texture_info_index |-> U16At(f, at + 10), type_light |-> f[at + 13],
     base_light |-> f[at + 14], light |-> << f[at + 15], f[at + 16] >>,
     lightmap |-> U32At(f, at + 16)]

WideFaceAt(f, at) ==
    [plane_index |-> U32At(f, at), side |-> U32At(f, at + 4),
     edge_list_index |-> U32At(f, at + 8), edge_count |-> U32At(f, at + 12),
     texture_info_index |-> U32At(f, at + 16), type_light |-> f[at + 21],
     base_light |-> f[at + 22], light |-> << f[at + 23], f[at + 24] >>,
     lightmap |-> U32At(f, at + 24)]

NarrowEdgeAt(f, at) == [v0 |-> U16At(f, at), v1 |-> U16At(f, at + 2)]

WideEdgeAt(f, at) == [v0 |-> U32At(f, at), v1 |-> U32At(f, at + 4)]

\* C5: the version alone selects the shapes of the face and edge records.
\* A V29 file has faces of 20 bytes with 16-bit plane index, side, edge
\* count and texture-info index and edges of 4 bytes; a BSP2 file has faces
\* of 28 bytes and edges of 8 bytes with 32-bit fields; the number of
\* records is the entry size divided by the size of the selected record.
C5_ShapesByVersion ==
    pc = "done" =>
        /\ result.val.version = (IF IsBSP2(file) THEN "BSP2" ELSE "V29")
        /\ Len(result.val.faces) =
              PairOf(file, "faces").size \div (IF IsBSP2(file) THEN 28 ELSE 20)
        /\ Len(result.val.edges) =
              PairOf(file, "edges").size \div (IF IsBSP2(file) THEN 8 ELSE 4)
        /\ \A i \in 1..Len(result.val.faces) :
              result.val.faces[i] =
                  IF IsBSP2(file)
                  THEN WideFaceAt(file, PairOf(file, "faces").offset + 28 * (i - 1))
                  ELSE NarrowFaceAt(file, PairOf(file, "faces").offset + 20 * (i - 1))
        /\ \A i \in 1..Len(result.val.edges) :
              result.val.edges[i] =
                  IF IsBSP2(file)
                  THEN WideEdgeAt(file, PairOf(file, "edges").offset + 8 * (i - 1))
                  ELSE NarrowEdgeAt(file, PairOf(file, "edges").offset + 4 * (i - 1))

C5_Witness ==
    /\ pc = "done"
    /\ ~IsBSP2(file)
    /\ PairOf(file, "faces").size = 40
    /\ Len(result.val.faces) = 2
    /\ result.val.faces[1].plane_index = 65535
    /\ Len(result.val.edges) = 2

\* The signed little-endian value of the 4 bytes after the first `at` bytes.
I32At(f, at) ==
    f[at + 1] + 256 * f[at + 2] + 65536 * f[at + 3]
        + 16777216 * (IF f[at + 4] >= 128 THEN f[at + 4] - 256 ELSE f[at + 4])

\* The texture header that starts at byte `at` of f ends beyond the end of
\* f: its name has no zero byte, or the 24 bytes after the name (after at
\* least 16 bytes) are not all there.
ShortTexture(f, at) ==
    \/ \A z \in (at + 1)..Len(f) : f[z] # 0
    \/ \E z \in (at + 1)..Len(f) :
          /\ f[z] = 0
          /\ \A y \in (at + 1)..(z - 1) : f[y] # 0
          /\ (IF z > at + 16 THEN z ELSE at + 16) + 24 > Len(f)

\* The texture directory at byte `base` of f: some read of it finds fewer
\* bytes than it needs.
ShortTextures(f, base) ==
    \/ base + 4 > Len(f)
    \/ /\ base + 4 <= Len(f)
       /\ I32At(f, base) >= 0
       /\ \/ base + 4 + 4 * I32At(f, base) > Len(f)
          \/ /\ base + 4 + 4 * I32At(f, base) <= Len(f)
             /\ \E i \in 1..I32At(f, base) :
                   /\ I32At(f, base + 4 * i) > 0
                   /\ ShortTexture(f, base + I32At(f, base + 4 * i))

\* The statement st needs bytes that the file f does not have.
Short(f, st) ==
    CASE st = "version" -> Len(f) < 4
      [] st = "header" -> Len(f) < 124
      [] st = "entities" ->
            /\ PairOf(f, st).size > 0
            /\ PairOf(f, st).offset + PairOf(f, st).size > Len(f)
      [] st = "textures" -> ShortTextures(f, PairOf(f, st).offset)
      [] st \in FixedSections ->
            /\ PairOf(f, st).size >= WireSizeOf(f, st)
            /\ PairOf(f, st).offset
                  + (PairOf(f, st).size \div WireSizeOf(f, st)) * WireSizeOf(f, st)
                  > Len(f)
      [] OTHER -> FALSE

\* C8: when a read of the parse finds fewer bytes than it needs, the parse
\* returns an error at that read, reads nothing after it and returns no
\* BspFile; a BspFile is returned only with every section decoded.
C8_ShortReadFails ==
    /\ \A k \in 1..12 :
          (HasRun(Statements[k]) /\ Short(file, Statements[k]))
          => /\ ~Passed(Statements[k])
             /\ pc = "err"
             /\ result = [ok |-> FALSE, err |-> "failed to fill whole buffer"]
             /\ log[Len(log)].op = "read"
             /\ ~log[Len(log)].ok
             /\ \A j \in (k + 1)..12 : ~HasRun(Statements[j])
    /\ \A k \in 1..Len(log) : (log[k].op = "read" /\ ~log[k].ok) => k = Len(log)
    /\ result # NotReturned =>
          \/ pc = "err" /\ ~result.ok
          \/ /\ pc = "done"
             /\ result.ok
             /\ \A k \in 1..12 : Passed(Statements[k]) /\ ~Short(file, Statements[k])
             /\ DOMAIN result.val =
                   {"version", "header", "edge_list", "edges", "entities",
                    "faces", "lightmaps", "models", "planes", "texture_info",
                    "textures", "vertices"}

C8_Witness ==
    /\ pc = "err"
    /\ Passed("textures")
    /\ HasRun("texture_info")
    /\ Short(file, "texture_info")
    /\ result = Err(UnexpectedEof)

(***************************************************************************)
(* The readers of faces and edges on their own: the same faces and edges   *)
(* are put on the wire in the narrow and in the wide layout and each       *)
(* encoding is decoded by read_vec with the reader of its format.          *)
(***************************************************************************)
MaxSeq == 2

\* Values of a 16-bit field: the ends, the byte boundary and the sign bit.
W16 == {0, 255, 256, 32768, 65535}

\* The i-th face and edge made from the 16-bit values a and b.
FaceOf(a, b, i) ==
    [plane_index |-> a, side |-> b, edge_list_index |-> 70000 + i,
     edge_count |-> (a + b) % 65536, texture_info_index |-> 65535 - b,
     type_light |-> a % 256, base_light |-> b % 256, light |-> <<255, i>>,
     lightmap |-> 2147483647 - a]

EdgeOf(a, b) == [v0 |-> a, v1 |-> b]

FacesOf(ab) == [i \in 1..Len(ab) |-> FaceOf(ab[i][1], ab[i][2], i)]

EdgesOf(ab) == [i \in 1..Len(ab) |-> EdgeOf(ab[i][1], ab[i][2])]

EncodeFaces(fs, w16) == Flatten([i \in 1..Len(fs) |-> FaceBytes(fs[i], w16)])

EncodeEdges(es, w16) == Flatten([i \in 1..Len(es) |-> EdgeBytes(es[i], w16)])

\* read_vec::<T> over an entry that covers all of bytes.
decode_all(T, bytes) == read_vec(bytes, [offset |-> 0, size |-> Len(bytes)], T)

InitWiden ==
    /\ inp \in UNION {[1..k -> W16 \X W16] : k \in 0..MaxSeq}
    /\ out = Idle
    /\ pc = "call"
    /\ file = <<>>
    /\ pos = 0
    /\ loc = <<>>
    /\ result = NotReturned
    /\ log = <<>>

CallReaders ==
    /\ pc = "call"
    /\ pc' = "returned"
    /\ out' = [narrow_faces |->
                   decode_all("FaceV1Reader", EncodeFaces(FacesOf(inp), 2)),
               wide_faces |-> decode_all("Face", EncodeFaces(FacesOf(inp), 4)),
               narrow_edges |->
                   decode_all("EdgeV1Reader", EncodeEdges(EdgesOf(inp), 2)),
               wide_edges |-> decode_all("Edge", EncodeEdges(EdgesOf(inp), 4))]
    /\ UNCHANGED <<file, pos, loc, result, log, inp>>

NextWiden == CallReaders

SpecWiden == InitWiden /\ [][NextWiden]_vars

\* C6: for faces and edges whose plane index, side, edge count, texture-info
\* index and vertex indices lie in 0..65535, decoding the narrow encoding
\* and decoding the wide encoding give the same Face and Edge arrays, and
\* these hold the values that were encoded: a narrow field is widened by
\* zero extension (0xFFFF becomes 65535), the other fields are copied.
C6_NarrowEqualsWide ==
    pc = "returned" =>
        /\ out.narrow_faces.ok /\ out.wide_faces.ok
        /\ out.narrow_edges.ok /\ out.wide_edges.ok
        /\ out.narrow_faces.val = out.wide_faces.val
        /\ out.narrow_edges.val = out.wide_edges.val
        /\ out.narrow_faces.val = FacesOf(inp)
        /\ out.narrow_edges.val = EdgesOf(inp)

C6_Witness ==
    /\ pc = "returned"
    /\ Len(inp) = 2
    /\ inp[1] = <<65535, 32768>>
    /\ out.narrow_faces.val[1].plane_index = 65535
    /\ out.narrow_faces.val[1].side = 32768
    /\ out.narrow_edges.val[1] = [v0 |-> 65535, v1 |-> 32768]
    /\ out.wide_faces.val = out.narrow_faces.val

(***************************************************************************)
(* parse_entities on its own.  An entity text is given line by line: an    *)
(* opening brace, a closing brace, or a field "K" "V".                     *)
(***************************************************************************)
MaxLines == 6

Open == [t |-> "open"]

Close == [t |-> "close"]

Field(k, v) == [t |-> "field", k |-> k, v |-> v]

\* "a" "b", "c" "d e", "a" "" and "" "v".
FieldItems ==
    { Field(<<97>>, <<98>>), Field(<<99>>, <<100, 32, 101>>),
      Field(<<97>>, <<>>), Field(<<>>, <<118>>) }

Items == {Open, Close} \cup FieldItems

\* The characters of an item: a brace, a field, or a line of another shape.
ItemText(item) ==
    CASE item.t = "open" -> <<LBRACE>>
      [] item.t = "close" -> <<RBRACE>>
      [] item.t = "field" ->
            <<QUOTE>> \o item.k \o <<QUOTE, SPACE, QUOTE>> \o item.v \o <<QUOTE>>
      [] item.t = "other" -> item.text

\* The k-th of n lines: every second line is indented with a tab, every
\* third one ends with a space, the line ends are CR LF and LF in turn, and
\* the last line of an even number of lines has no line end.
LineBytes(item, k, n) ==
    (IF k % 2 = 0 THEN <<9>> ELSE <<>>)
        \o ItemText(item)
        \o (IF k % 3 = 0 THEN <<SPACE>> ELSE <<>>)
        \o (IF k = n /\ n % 2 = 0 THEN <<>>
            ELSE IF k % 2 = 1 THEN <<CR, LF>> ELSE <<LF>>)

TextOf(items) ==
    Flatten([k \in 1..Len(items) |-> LineBytes(items[k], k, Len(items))])

InitEntities ==
    /\ inp \in UNION {[1..k -> Items] : k \in 0..MaxLines}
    /\ out = Idle
    /\ pc = "call"
    /\ file = <<>>
    /\ pos = 0
    /\ loc = <<>>
    /\ result = NotReturned
    /\ log = <<>>

CallParseEntities ==
    /\ pc = "call"
    /\ pc' = "returned"
    /\ out' = parse_entities(TextOf(inp))
    /\ UNCHANGED <<file, pos, loc, result, log, inp>>

NextEntities == CallParseEntities

SpecEntities == InitEntities /\ [][NextEntities]_vars

\* A block is open after the first k items.
RECURSIVE InBlock(_, _)
InBlock(items, k) ==
    IF k = 0 THEN FALSE
    ELSE IF items[k].t = "open" THEN TRUE
    ELSE IF items[k].t = "close" THEN FALSE
    ELSE InBlock(items, k - 1)

\* The braces of the text pair up into blocks that do not nest.
WellFormed(items) ==
    /\ \A k \in 1..Len(items) :
          /\ items[k].t = "open" => ~InBlock(items, k - 1)
          /\ items[k].t = "close" => InBlock(items, k - 1)
    /\ ~InBlock(items, Len(items))

Closes(items) == {k \in 1..Len(items) : items[k].t = "close"}

\* The line of the closing brace of the i-th block, and of its opening brace.
CloseOf(items, i) ==
    CHOOSE c \in Closes(items) :
        Cardinality({d \in Closes(items) : d < c}) = i - 1

OpenOf(items, i) ==
    CHOOSE o \in 1..CloseOf(items, i) :
        /\ items[o].t = "open"
        /\ \A k \in (o + 1)..CloseOf(items, i) : items[k].t # "open"

\* The field lines of the i-th block of a well-formed text.
BlockFields(items, i) ==
    SubSeq(items, OpenOf(items, i) + 1, CloseOf(items, i) - 1)

\* The mapping a sequence of (key, value) pairs stands for: a key maps to
\* the value of the last pair that has it.
LastWins(pairs) ==
    [x \in {pairs[j][1] : j \in 1..Len(pairs)} |->
        pairs[CHOOSE j \in 1..Len(pairs) :
                 /\ pairs[j][1] = x
                 /\ \A h \in (j + 1)..Len(pairs) : pairs[h][1] # x][2]]

\* The pairs parse_entities takes from the lines fs, and the pairs K, V the
\* lines were written from.
TakenPairs(fs) == [j \in 1..Len(fs) |-> key_value(ItemText(fs[j]))]

WrittenPairs(fs) == [j \in 1..Len(fs) |-> << fs[j].k, fs[j].v >>]

C10_FieldLineGivesEntry ==
    (pc = "returned" /\ WellFormed(inp)) =>
        /\ Len(out.val) = Cardinality(Closes(inp))
        /\ \A i \in 1..Cardinality(Closes(inp)) :
              out.val[i] = LastWins(WrittenPairs(BlockFields(inp, i)))

(***************************************************************************)
(* parse_entities on texts that also hold lines of other shapes, on the    *)
(* text followed by a zero byte, and on the text written from its result.  *)
(***************************************************************************)
MaxText == 4

\* A line that is neither a brace nor a field.
Other(text) == [t |-> "other", text |-> text]

\* The lines "a" (one quoted token), x y (no quotes) and the empty line.
OtherItems == { Other(<<QUOTE, 97, QUOTE>>), Other(<<120, SPACE, 121>>), Other(<<>>) }

TextItems ==
    {Open, Close, Field(<<97>>, <<98>>), Field(<<99>>, <<100, 32, 101>>),
     Field(<<97>>, <<>>)} \cup OtherItems

\* The entries of the mapping m in one order (up = TRUE) and in the other.
RECURSIVE KeysInOrder(_, _)
KeysInOrder(keys, up) ==
    IF keys = {} THEN <<>>
    ELSE LET k == CHOOSE x \in keys : TRUE
         IN  IF up THEN <<k>> \o KeysInOrder(keys \ {k}, up)
             ELSE KeysInOrder(keys \ {k}, up) \o <<k>>

\* The mapping m written as a block: {, one line "key" "value" per entry, }.
WriteBlock(m, up) ==
    <<LBRACE, LF>>
        \o Flatten([j \in 1..Cardinality(DOMAIN m) |->
              <<QUOTE>> \o KeysInOrder(DOMAIN m, up)[j] \o <<QUOTE, SPACE, QUOTE>>
                  \o m[KeysInOrder(DOMAIN m, up)[j]] \o <<QUOTE, LF>>])
        \o <<RBRACE, LF>>

WriteEntities(ms, up) == Flatten([i \in 1..Len(ms) |-> WriteBlock(ms[i], up)])

InitText ==
    /\ inp \in UNION {[1..k -> TextItems] : k \in 0..MaxText}
    /\ out = Idle
    /\ pc = "call"
    /\ file = <<>>
    /\ pos = 0
    /\ loc = <<>>
    /\ result = NotReturned
    /\ log = <<>>

\* parse_entities of the text, of the text followed by a zero byte, and of
\* the text written from the first result, its entries in either order.
CallParseText ==
    /\ pc = "call"
    /\ pc' = "returned"
    /\ out' = [plain |-> parse_entities(TextOf(inp)),
               nul |-> parse_entities(TextOf(inp) \o <<0>>),
               again |-> parse_entities(
                            WriteEntities(parse_entities(TextOf(inp)).val, TRUE)),
               again_down |-> parse_entities(
                            WriteEntities(parse_entities(TextOf(inp)).val, FALSE))]
    /\ UNCHANGED <<file, pos, loc, result, log, inp>>

NextText == CallParseText

SpecText == InitText /\ [][NextText]_vars

IsField(item) == item.t = "field"

\* C11 as claimed: a line that is neither a brace nor has a `" "` separator
\* between two quoted tokens is ignored: it adds no key, not even an empty
\* one, parse_entities succeeds, and the fields of the block are intact.
C11_OtherLinesIgnored ==
    (/\ pc = "returned"
     /\ WellFormed(inp)
     /\ \A k \in 1..Len(inp) : IsField(inp[k]) => inp[k].v # <<>>)
    => /\ out.plain.ok
       /\ Len(out.plain.val) = Cardinality(Closes(inp))
       /\ \A i \in 1..Cardinality(Closes(inp)) :
             out.plain.val[i] =
                 LastWins(WrittenPairs(SelectSeq(BlockFields(inp, i), IsField)))

\* C12: every list parse_entities returns is a fixed point of writing and
\* parsing: written block by block as {, one line "key" "value" per entry
\* (in whichever order the entries come), }, and parsed again, it is
\* returned unchanged.
C12_RoundTrip ==
    pc = "returned"
    => /\ out.again = out.plain
       /\ out.again_down = out.plain

\* A returned mapping of two entries, one of them with the empty key, that
\* was written and parsed again.
C12_Witness ==
    /\ pc = "returned"
    /\ out.plain.ok
    /\ Len(out.plain.val) = 1
    /\ Cardinality(DOMAIN out.plain.val[1]) = 2
    /\ <<>> \in DOMAIN out.plain.val[1]
    /\ out.again = out.plain

\* C13 as claimed: for a well-formed text, the bytes of the text and the
\* bytes of the text followed by one zero byte parse to the same list.
C13_ZeroByteTolerated ==
    (pc = "returned" /\ WellFormed(inp)) => out.nul = out.plain

(***************************************************************************)
(* parse_textures on texture sections whose directory mixes slots that     *)
(* point at a texture with slots of offset 0 and of offset -1.             *)
(***************************************************************************)
MaxSlots == 3

SlotKinds == {"texture", "zero", "negative"}

TEXTURE_SIZE == 40

\* The slots of the directory that point at a texture, in slot order.
RECURSIVE Positive(_, _)
Positive(slots, j) ==
    IF j > Len(slots) THEN <<>>
    ELSE IF slots[j] = "texture" THEN <<j>> \o Positive(slots, j + 1)
    ELSE Positive(slots, j + 1)

\* The place, counted from 1, of the texture of the r-th pointing slot among
\* the texture records of the section: in slot order or in the reverse.
PlaceOf(i, r) ==
    IF i.up THEN r ELSE Len(Positive(i.slots, 1)) + 1 - r

\* The r-th pointing slot's offset relative to the start of the section.
RelOf(i, r) == 4 + 4 * Len(i.slots) + TEXTURE_SIZE * (PlaceOf(i, r) - 1)

\* The number of pointing slots among the first j.
Rank(i, j) == Len(Positive(SubSeq(i.slots, 1, j), 1))

SlotOffset(i, j) ==
    CASE i.slots[j] = "texture" -> RelOf(i, Rank(i, j))
      [] i.slots[j] = "zero" -> 0
      [] i.slots[j] = "negative" -> -1

\* The texture record of slot j: name t<j>, j by 2j pixels.
SlotTexture(j) == TextureBytes(<<116, 48 + j>>, j, 2 * j)

\* A file of i.base bytes followed by the texture section.
SlotsFile(i) ==
    LET pos_ == Positive(i.slots, 1)
        n == Len(pos_)
    IN  Fill(7, i.base)
            \o to_le_bytes(Len(i.slots), 4)
            \o Flatten([j \in 1..Len(i.slots) |-> to_le_bytes(SlotOffset(i, j), 4)])
            \o Flatten([q \in 1..n |->
                   SlotTexture(pos_[IF i.up THEN q ELSE n + 1 - q])])

InitTextures ==
    /\ inp \in [base : {0, 3}, up : BOOLEAN,
                slots : UNION {[1..k -> SlotKinds] : k \in 0..MaxSlots}]
    /\ out = Idle
    /\ pc = "call"
    /\ file = <<>>
    /\ pos = 0
    /\ loc = <<>>
    /\ result = NotReturned
    /\ log = <<>>

CallParseTextures ==
    /\ pc = "call"
    /\ pc' = "returned"
    /\ out' = parse_textures(SlotsFile(inp), inp.base)
    /\ UNCHANGED <<file, pos, loc, result, log, inp>>

NextTextures == CallParseTextures

SpecTextures == InitTextures /\ [][NextTextures]_vars

\* The texture parse_textures is to return for the r-th pointing slot.
ExpectedTexture(i, r) ==
    LET j == Positive(i.slots, 1)[r]
        abs == i.base + RelOf(i, r)
    IN  [name |-> <<116, 48 + j>>, width |-> j, height |-> 2 * j,
         offset1 |-> 40 + abs, offset2 |-> 40 + 2 * j * j + abs,
         offset4 |-> 50 + 2 * j * j + abs, offset8 |-> 60 + 2 * j * j + abs]

\* C14: a slot whose relative offset is 0 or negative yields no texture
\* and leaves the others alone: the returned list has one texture per slot
\* of positive offset, in slot order, and the texture of slot j is the
\* record read at base + offset_j, whatever the other slots hold.
C14_EmptySlotsSkipped ==
    pc = "returned"
    => /\ out.ok
       /\ Len(out.val) = Len(Positive(inp.slots, 1))
       /\ \A r \in 1..Len(Positive(inp.slots, 1)) :
             /\ out.val[r] = ExpectedTexture(inp, r)
             /\ out.log[2 * r + 1] = Seek(inp.base + RelOf(inp, r))
       /\ Len(out.log) = 2 + 2 * Len(Positive(inp.slots, 1))

\* Three slots, the middle one of offset zero, the textures stored in the
\* reverse of slot order behind a base offset that is not zero.
C14_Witness ==
    /\ pc = "returned"
    /\ inp.slots = <<"texture", "zero", "texture">>
    /\ ~inp.up
    /\ inp.base = 3
    /\ out.ok
    /\ Len(out.val) = 2
    /\ out.val[2].name = <<116, 51>>

(***************************************************************************)
(* read_texture_image on textures of small and of extreme dimensions, at   *)
(* every scale, from files that hold the mip level and files cut one byte  *)
(* short of its end.                                                       *)
(***************************************************************************)
MaxDim == 5

Scales == {"Full", "Half", "Quarter", "Eighth"}

\* The mip level i of the scale: the level is 1 / 2^i of the full size.
LevelOf(scale) ==
    CASE scale = "Full" -> 0
      [] scale = "Half" -> 1
      [] scale = "Quarter" -> 2
      [] scale = "Eighth" -> 3

\* n >> i on a signed 32-bit n.
Shr(n, i) == n \div (2 ^ i)

\* Width and height pairs: the small ones, 16 by 16 (256 pixels), one below
\* zero, and widths past 2^24 with no rows.
Dims ==
    ((0..MaxDim) \X (0..MaxDim))
        \cup {<<16, 16>>, <<0 - 3, 4>>, <<4, 0 - 3>>,
              <<16777217, 0>>, <<16777219, 0>>, <<0, 33554434>>}

\* The pixels of a level that has them.
Area(w, h, i) == IF w > 0 /\ h > 0 THEN Shr(w, i) * Shr(h, i) ELSE 0

\* The texture of w by h pixels whose four levels follow each other from
\* byte 40 on.
TextureOf(w, h) ==
    [name |-> <<116>>, width |-> w, height |-> h,
     offset1 |-> 40,
     offset2 |-> 40 + Area(w, h, 0),
     offset4 |-> 40 + Area(w, h, 0) + Area(w, h, 1),
     offset8 |-> 40 + Area(w, h, 0) + Area(w, h, 1) + Area(w, h, 2)]

\* A file whose byte at offset k is (37 k + 3) mod 256, ending with the
\* level of the scale or, when short, one byte before its end.
ImageFile(i) ==
    [k \in 1..(offset_of(TextureOf(i.w, i.h), i.scale)
                  + Area(i.w, i.h, LevelOf(i.scale))
                  - (IF i.short THEN 1 ELSE 0)) |-> ((k - 1) * 37 + 3) % 256]

InitImage ==
    /\ inp \in {[w |-> d[1], h |-> d[2], scale |-> sc, short |-> sh] :
                   d \in Dims, sc \in Scales, sh \in BOOLEAN}
    /\ out = Idle
    /\ pc = "call"
    /\ file = <<>>
    /\ pos = 0
    /\ loc = <<>>
    /\ result = NotReturned
    /\ log = <<>>

CallReadTextureImage ==
    /\ pc = "call"
    /\ pc' = "returned"
    /\ out' = read_texture_image(ImageFile(inp), TextureOf(inp.w, inp.h),
                                 inp.scale)
    /\ UNCHANGED <<file, pos, loc, result, log, inp>>

NextImage == CallReadTextureImage

SpecImage == InitImage /\ [][NextImage]_vars

\* C15 as claimed: at mip level i the image has width W >> i and height
\* H >> i, exactly (W >> i) * (H >> i) bytes are read at the level's
\* offset, and the call fails when fewer are there, for every W and H the
\* texture header can store.
C15_MipDimensions ==
    pc = "returned"
    => LET i == LevelOf(inp.scale)
           need == Shr(inp.w, i) * Shr(inp.h, i)
           at == offset_of(TextureOf(inp.w, inp.h), inp.scale)
       IN  IF Max(Len(ImageFile(inp)) - at, 0) >= need
           THEN /\ out.ok
                /\ out.val.width = Shr(inp.w, i)
                /\ out.val.height = Shr(inp.h, i)
                /\ out.log = <<Seek(at), Read("u8", at, need, TRUE)>>
           ELSE /\ ~out.ok
                /\ "err" \in DOMAIN out

\* The colour index the file holds for pixel k (from 0) of the level read.
IndexAt(i, k) ==
    ImageFile(i)[offset_of(TextureOf(i.w, i.h), i.scale) + k + 1]

\* C16: the RGB buffer of an image of n colour indexes has 3n bytes and
\* its bytes 3k, 3k + 1, 3k + 2 are the palette's bytes 3 idx, 3 idx + 1,
\* 3 idx + 2 for the k-th index idx; no index 0..255 reaches outside the
\* 768 bytes of the palette.
C16_PaletteExpansion ==
    /\ Len(PALETTE) = 768
    /\ pc = "returned"
       => /\ "panic" \notin DOMAIN out
          /\ out.ok
             => /\ Len(out.val.data) = 3 * out.val.width * out.val.height
                /\ \A k \in 0..(out.val.width * out.val.height - 1) :
                      \A c \in 0..2 :
                          out.val.data[3 * k + c + 1]
                              = PALETTE[3 * IndexAt(inp, k) + c + 1]

\* An image of 256 pixels whose indexes run over all of 0..255, the last
\* palette entry among them.
C16_Witness ==
    /\ pc = "returned"
    /\ out.ok
    /\ out.val.width * out.val.height = 256
    /\ {IndexAt(inp, k) : k \in 0..255} = 0..255
    /\ \E k \in 0..255 :
          /\ IndexAt(inp, k) = 255
          /\ out.val.data[3 * k + 3] = PALETTE[768]

(***************************************************************************)
(* The cross-reference helpers called one after the other on the faces of  *)
(* aggregates whose arrays are shorter than some of the indexes.  A call   *)
(* that panics is the last one.                                            *)
(***************************************************************************)
MaxCalls == 2

\* An aggregate of nti texture infos, ntex textures, ne edges, nv vertices
\* and an edge list of six entries.
BspOf(nti, ntex, ne, nv) ==
    [texture_info |-> [i \in 1..nti |-> [texture_index |-> i % 3, flags |-> i]],
     textures |-> [i \in 1..ntex |-> [name |-> <<116, 48 + i>>, width |-> 8 * i]],
     edge_list |-> <<1, 0 - 1, 0, 0 - 2, 2, 3>>,
     edges |-> [k \in 1..ne |-> [v0 |-> 2 * (k - 1), v1 |-> 2 * (k - 1) + 1]],
     vertices |-> [i \in 1..nv |-> [x |-> i - 1, y |-> 10 * i, z |-> 0 - i]]]

Aggregates ==
    {BspOf(nti, ntex, ne, nv) :
        nti \in {0, 2}, ntex \in {1, 3}, ne \in {3, 4}, nv \in {5, 8}}

FaceOn(ti, s, c) ==
    [texture_info_index |-> ti, edge_list_index |-> s, edge_count |-> c]

HelperFaces ==
    {FaceOn(0, 0, 2), FaceOn(1, 1, 3), FaceOn(2, 3, 2), FaceOn(0, 4, 2),
     FaceOn(1, 5, 3), FaceOn(3, 0, 0)}

InitHelpers ==
    /\ inp \in Aggregates
    /\ out = <<>>
    /\ pc = "idle"
    /\ file = <<>>
    /\ pos = 0
    /\ loc = <<>>
    /\ result = NotReturned
    /\ log = <<>>

\* One call of the helper fn on a face with the outcome r.
Called(fn, face, r) ==
    /\ pc = "idle"
    /\ Len(out) < MaxCalls
    /\ out' = Append(out, [fn |-> fn, face |-> face, res |-> r])
    /\ pc' = IF "panic" \in DOMAIN r THEN "aborted" ELSE "idle"
    /\ UNCHANGED <<file, pos, loc, result, log, inp>>

CallGetFaceTextureInfo ==
    \E face \in HelperFaces :
        Called("get_face_texture_info", face, get_face_texture_info(inp, face))

CallGetFaceTexture ==
    \E face \in HelperFaces :
        Called("get_face_texture", face, get_face_texture(inp, face))

CallGetFaceVerticeIndexes ==
    \E face \in HelperFaces :
        Called("get_face_vertice_indexes", face,
               get_face_vertice_indexes(inp, face))

CallGetFaceVertices ==
    \E face \in HelperFaces :
        Called("get_face_vertices", face, get_face_vertices(inp, face))

NextHelpers ==
    \/ CallGetFaceTextureInfo
    \/ CallGetFaceTexture
    \/ CallGetFaceVerticeIndexes
    \/ CallGetFaceVertices

SpecHelpers == InitHelpers /\ [][NextHelpers]_vars

\* The calls of the helper fn made so far.
CallsOf(fn) == {k \in 1..Len(out) : out[k].fn = fn}

\* C17: get_face_texture_info returns texture_info[i] for the face's
\* texture_info_index i when i is below the length of texture_info, and
\* otherwise returns the index-out-of-bounds error, never aborting.
C17_TextureInfoLookup ==
    \A k \in CallsOf("get_face_texture_info") :
        LET i == out[k].face.texture_info_index
        IN  IF i < Len(inp.texture_info)
            THEN out[k].res = Ok(inp.texture_info[i + 1])
            ELSE out[k].res = Err(TextureInfoIndexOutOfBounds)

\* A lookup that failed, followed by one that returned the second info.
C17_Witness ==
    /\ Len(out) = 2
    /\ out[1].fn = "get_face_texture_info"
    /\ out[1].res = Err(TextureInfoIndexOutOfBounds)
    /\ out[2].fn = "get_face_texture_info"
    /\ out[2].res.ok
    /\ out[2].res.val = inp.texture_info[2]
    /\ pc = "idle"

\* C18: get_face_texture returns textures[texture_info[i].texture_index]
\* for the face's texture_info_index i when both indexes are in range, and
\* an error when either is not; the error of the texture-info lookup is
\* passed on unchanged.
C18_TextureLookup ==
    \A k \in CallsOf("get_face_texture") :
        LET i == out[k].face.texture_info_index
        IN  IF i >= Len(inp.texture_info)
            THEN out[k].res = Err(TextureInfoIndexOutOfBounds)
            ELSE IF inp.texture_info[i + 1].texture_index < Len(inp.textures)
            THEN out[k].res =
                     Ok(inp.textures[inp.texture_info[i + 1].texture_index + 1])
            ELSE out[k].res = Err(TextureIndexOutOfBounds)

\* A lookup that passed on the texture-info error, and then one that
\* returned the third texture through the second texture info.
C18_Witness ==
    /\ Len(out) = 2
    /\ Len(inp.textures) = 3
    /\ out[1].fn = "get_face_texture"
    /\ out[1].face.texture_info_index >= Len(inp.texture_info)
    /\ out[1].res = Err(TextureInfoIndexOutOfBounds)
    /\ out[2].fn = "get_face_texture"
    /\ out[2].face.texture_info_index = 1
    /\ out[2].res = Ok(inp.textures[3])

\* The edge-list entries s .. s + c - 1 of the face that the list holds.
EntriesOf(face) ==
    [j \in 1..(Min(face.edge_list_index + face.edge_count, Len(inp.edge_list))
                  - Min(face.edge_list_index, Len(inp.edge_list))) |->
        inp.edge_list[face.edge_list_index + j]]

\* The face's range of the edge list lies inside the list.
InsideEdgeList(face) ==
    face.edge_list_index + face.edge_count <= Len(inp.edge_list)

\* The edge an entry names: edge k for +k and for -k.
EdgeNamed(e) == IF e >= 0 THEN e ELSE 0 - e

\* Every entry of the face names an edge that exists.
EdgesExist(face) ==
    \A j \in 1..Len(EntriesOf(face)) :
        EdgeNamed(EntriesOf(face)[j]) < Len(inp.edges)

\* The vertex index an entry stands for: v0 of edge k for +k (and for 0),
\* v1 of edge k for -k.
VertexIndexOf(e) ==
    IF e >= 0 THEN inp.edges[e + 1].v0 ELSE inp.edges[(0 - e) + 1].v1

\* Every vertex index of the face names a vertex that exists.
VerticesExist(face) ==
    \A j \in 1..Len(EntriesOf(face)) :
        VertexIndexOf(EntriesOf(face)[j]) < Len(inp.vertices)

\* C19: for a face whose s = edge_list_index and c = edge_count lie inside
\* the edge list (its entries naming edges that exist),
\* get_face_vertice_indexes returns c vertex indexes, the j-th from entry
\* s + j: +k gives edges[k].v0 and -k gives edges[k].v1; and
\* get_face_vertices returns the vertices at those indexes in that order.
C19_SignConvention ==
    /\ \A k \in CallsOf("get_face_vertice_indexes") :
          (InsideEdgeList(out[k].face) /\ EdgesExist(out[k].face))
          => /\ out[k].res.ok
             /\ Len(out[k].res.val) = out[k].face.edge_count
             /\ \A j \in 1..out[k].face.edge_count :
                   LET e == inp.edge_list[out[k].face.edge_list_index + j]
                   IN  /\ e > 0 => out[k].res.val[j] = inp.edges[e + 1].v0
                       /\ e < 0 => out[k].res.val[j] = inp.edges[(0 - e) + 1].v1
    /\ \A k \in CallsOf("get_face_vertices") :
          (/\ InsideEdgeList(out[k].face)
           /\ EdgesExist(out[k].face)
           /\ VerticesExist(out[k].face))
          => /\ out[k].res.ok
             /\ Len(out[k].res.val) = out[k].face.edge_count
             /\ \A j \in 1..out[k].face.edge_count :
                   out[k].res.val[j] =
                       inp.vertices[VertexIndexOf(
                           inp.edge_list[out[k].face.edge_list_index + j]) + 1]

\* The face of entries +1 and -1: the indexes 2 and 3, the two ends of
\* edge 1, and then the vertices 2 and 3.
C19_Witness ==
    /\ Len(out) = 2
    /\ out[1].fn = "get_face_vertice_indexes"
    /\ out[1].face = FaceOn(0, 0, 2)
    /\ out[1].res = Returns(<<2, 3>>)
    /\ out[2].fn = "get_face_vertices"
    /\ out[2].face = FaceOn(0, 0, 2)
    /\ out[2].res = Returns(<<inp.vertices[3], inp.vertices[4]>>)

\* The call asks its helper to resolve an index beyond the length of the
\* array it indexes.
Beyond(call) ==
    CASE call.fn = "get_face_texture_info" ->
            call.face.texture_info_index >= Len(inp.texture_info)
      [] call.fn = "get_face_texture" ->
            \/ call.face.texture_info_index >= Len(inp.texture_info)
            \/ inp.texture_info[call.face.texture_info_index + 1].texture_index
                   >= Len(inp.textures)
      [] call.fn = "get_face_vertice_indexes" ->
            ~InsideEdgeList(call.face) \/ ~EdgesExist(call.face)
      [] call.fn = "get_face_vertices" ->
            \/ ~InsideEdgeList(call.face)
            \/ ~EdgesExist(call.face)
            \/ ~VerticesExist(call.face)

\* C20 as claimed: every helper asked to resolve an index beyond the
\* length of its array fails locally and recoverably: the call returns an
\* error to its caller without aborting, the aggregate is as it was, and
\* later calls for other faces can still be made.
C20_FailsRecoverably ==
    /\ pc = "idle"
    /\ \A k \in 1..Len(out) :
          Beyond(out[k]) => (~out[k].res.ok /\ "err" \in DOMAIN out[k].res)

(***************************************************************************)
(* parse_textures on a section of one texture whose 16-byte name field     *)
(* holds a short name, a byte that is no text, bytes after the zero byte,  *)
(* or sixteen bytes none of which is zero.                                 *)
(***************************************************************************)
MaxSide == 3

\* The sixteen bytes of the name field, by kind.
NameField(kind) ==
    CASE kind = "short" -> <<116, 49>> \o [i \in 1..14 |-> 0]
      [] kind = "empty" -> [i \in 1..16 |-> 0]
      [] kind = "no_text" -> <<116, 255, 49>> \o [i \in 1..13 |-> 0]
      [] kind = "two_byte" -> <<195, 169>> \o [i \in 1..14 |-> 0]
      [] kind = "after_zero" -> <<116, 0, 120, 121>> \o [i \in 1..12 |-> 0]
      [] kind = "sixteen" -> [i \in 1..16 |-> 96 + i]

NameKinds == {"short", "empty", "no_text", "two_byte", "after_zero", "sixteen"}

\* The bytes of the field before its first zero byte.
NameBytes(field) ==
    IF find_char(field, 0, 1) = 0 THEN field
    ELSE SubSeq(field, 1, find_char(field, 0, 1) - 1)

\* std::str::from_utf8 accepts the bytes from index k on.
RECURSIVE valid_utf8(_, _)
valid_utf8(b, k) ==
    LET Cont(j, lo, hi) == j <= Len(b) /\ b[j] >= lo /\ b[j] <= hi
    IN  IF k > Len(b) THEN TRUE
        ELSE IF b[k] < 128 THEN valid_utf8(b, k + 1)
        ELSE IF b[k] >= 194 /\ b[k] <= 223
        THEN Cont(k + 1, 128, 191) /\ valid_utf8(b, k + 2)
        ELSE IF b[k] >= 224 /\ b[k] <= 239
        THEN /\ Cont(k + 1, IF b[k] = 224 THEN 160 ELSE 128,
                            IF b[k] = 237 THEN 159 ELSE 191)
             /\ Cont(k + 2, 128, 191)
             /\ valid_utf8(b, k + 3)
        ELSE IF b[k] >= 240 /\ b[k] <= 244
        THEN /\ Cont(k + 1, IF b[k] = 240 THEN 144 ELSE 128,
                            IF b[k] = 244 THEN 143 ELSE 191)
             /\ Cont(k + 2, 128, 191)
             /\ Cont(k + 3, 128, 191)
             /\ valid_utf8(b, k + 4)
        ELSE FALSE

\* The texture record: the name field, width, height and the four offsets
\* 40, 50, 60, 70 relative to the record.
NamedTexture(i) ==
    NameField(i.kind) \o to_le_bytes(i.w, 4) \o to_le_bytes(i.h, 4)
        \o to_le_bytes(40, 4) \o to_le_bytes(50, 4) \o to_le_bytes(60, 4)
        \o to_le_bytes(70, 4)

\* i.base bytes, a directory of one slot, the texture record, four bytes.
NameFile(i) ==
    Fill(7, i.base) \o to_le_bytes(1, 4) \o to_le_bytes(8, 4)
        \o NamedTexture(i) \o <<0, 0, 0, 0>>

InitName ==
    /\ inp \in [kind : NameKinds, base : {0, 3}, w : 1..MaxSide, h : 1..MaxSide]
    /\ out = Idle
    /\ pc = "call"
    /\ file = <<>>
    /\ pos = 0
    /\ loc = <<>>
    /\ result = NotReturned
    /\ log = <<>>

\* parse_textures on the file, and parse_entities on the bytes of the name
\* field taken as entity text.
CallParseNamed ==
    /\ pc = "call"
    /\ pc' = "returned"
    /\ out' = [textures |-> parse_textures(NameFile(inp), inp.base),
               entities |-> parse_entities(NameField(inp.kind))]
    /\ UNCHANGED <<file, pos, loc, result, log, inp>>

NextName == CallParseNamed

SpecName == InitName /\ [][NextName]_vars

\* C21 as claimed: a texture whose name bytes (those before the first zero
\* byte of the 16-byte field) are not valid text makes the texture read
\* fail with an error, while entity text decodes with success whatever its
\* bytes are.
C21_InvalidNameFails ==
    pc = "returned"
    => /\ out.entities.ok
       /\ ~valid_utf8(NameBytes(NameField(inp.kind)), 1) => ~out.textures.ok

\* C27 as claimed: the name field takes exactly 16 bytes whatever it
\* holds, a zero byte inside it or none: width is decoded from the bytes
\* 16..19 of the texture header, height from 20..23 and the four offsets
\* from 24..39.
C27_NameFieldIsSixteenBytes ==
    pc = "returned"
    => /\ out.textures.ok
       /\ Len(out.textures.val) = 1
       /\ out.textures.val[1].width = inp.w
       /\ out.textures.val[1].height = inp.h
       /\ out.textures.val[1].offset1 = 40 + inp.base + 8
       /\ out.textures.val[1].offset2 = 50 + inp.base + 8
       /\ out.textures.val[1].offset4 = 60 + inp.base + 8
       /\ out.textures.val[1].offset8 = 70 + inp.base + 8

(***************************************************************************)
(* worldspawn.rs: get_worldspawn_message, on data put together from the    *)
(* needle, a part of the needle, quotes, letters and bytes above 127.      *)
(***************************************************************************)
\* br#""message" ""#
MSG_NEEDLE == <<34, 109, 101, 115, 115, 97, 103, 101, 34, 32, 34>>

WorldSpawnMessageNotFound == "WorldSpawn message not found"

InvalidUtf8 == "invalid utf-8 sequence"

\* A conversion that takes the bytes as they are.
to_str_unchecked(bytes) == Ok(bytes)

\* ByteSlice::to_str: the bytes as a string when they are valid UTF-8.
to_str(bytes) == IF valid_utf8(bytes, 1) THEN Ok(bytes) ELSE Err(InvalidUtf8)

\* The second let-else and the result: q is the index, counted from 1, of
\* the first quote at or after index_from (0: there is none).
worldspawn_message_to(data, index_from, q) ==
    IF q = 0 THEN Err(WorldSpawnMessageNotFound)
    ELSE to_str(SubSeq(data, index_from + 1, q - 1))

\* The first let-else: i is the index, counted from 1, of the first
\* occurrence of the needle (0: there is none).
worldspawn_message_from(data, i) ==
    IF i = 0 THEN Err(WorldSpawnMessageNotFound)
    ELSE worldspawn_message_to(data, i - 1 + Len(MSG_NEEDLE),
                               find_char(data, QUOTE, i + Len(MSG_NEEDLE)))

get_worldspawn_message(data) ==
    worldspawn_message_from(data, find_str(data, MSG_NEEDLE, 1))

MaxTokens == 4

Tokens ==
    {MSG_NEEDLE, <<QUOTE>>, <<97>>, <<255>>, <<34, 109, 101>>, <<195, 169>>}

InitMessage ==
    /\ inp \in UNION {[1..k -> Tokens] : k \in 0..MaxTokens}
    /\ out = Idle
    /\ pc = "call"
    /\ file = <<>>
    /\ pos = 0
    /\ loc = <<>>
    /\ result = NotReturned
    /\ log = <<>>

CallGetWorldspawnMessage ==
    /\ pc = "call"
    /\ pc' = "returned"
    /\ out' = get_worldspawn_message(Flatten(inp))
    /\ UNCHANGED <<file, pos, loc, result, log, inp>>

NextMessage == CallGetWorldspawnMessage

SpecMessage == InitMessage /\ [][NextMessage]_vars

\* The indexes, from 1, at which the needle occurs in d.
NeedleAt(d) ==
    {k \in 1..(Len(d) - Len(MSG_NEEDLE) + 1) :
        SubSeq(d, k, k + Len(MSG_NEEDLE) - 1) = MSG_NEEDLE}

\* The index of the first byte after the first occurrence of the needle.
AfterNeedle(d) ==
    (CHOOSE k \in NeedleAt(d) : \A j \in NeedleAt(d) : k <= j) + Len(MSG_NEEDLE)

\* The indexes of the quotes at or after the index a.
QuotesFrom(d, a) == {q \in a..Len(d) : d[q] = QUOTE}

\* The bytes strictly between the needle and the first quote after it.
Between(d) ==
    SubSeq(d, AfterNeedle(d),
           (CHOOSE q \in QuotesFrom(d, AfterNeedle(d)) :
               \A j \in QuotesFrom(d, AfterNeedle(d)) : q <= j) - 1)

\* The needle occurs and a quote follows it.
HasMessage(d) == NeedleAt(d) # {} /\ QuotesFrom(d, AfterNeedle(d)) # {}

\* C22 as claimed: get_worldspawn_message returns the bytes strictly
\* between the first occurrence of the needle and the first quote after it,
\* and the error "WorldSpawn message not found" when the needle does not
\* occur or no quote follows it.
C22_MessageBetween ==
    pc = "returned"
    => IF HasMessage(Flatten(inp))
       THEN out = Ok(Between(Flatten(inp)))
       ELSE out = Err(WorldSpawnMessageNotFound)

\* C22 amended: the bytes between the needle and the quote are returned
\* when they are valid UTF-8; when they are not, an error other than
\* "WorldSpawn message not found" is returned.
C22_MessageBetweenIfText ==
    pc = "returned"
    => IF ~HasMessage(Flatten(inp))
       THEN out = Err(WorldSpawnMessageNotFound)
       ELSE IF valid_utf8(Between(Flatten(inp)), 1)
       THEN out = Ok(Between(Flatten(inp)))
       ELSE ~out.ok /\ out.err # WorldSpawnMessageNotFound

\* A message that holds a byte which is no text, between a needle that
\* follows a part of a needle and the first of two quotes.
C22_Witness ==
    /\ pc = "returned"
    /\ inp = << <<34, 109, 101>>, MSG_NEEDLE, <<255>>, <<QUOTE>> >>
    /\ out = Err(InvalidUtf8)

(***************************************************************************)
(* Entries that point beyond the end of the file (specification Spec).     *)
(***************************************************************************)
\* The sections the parse decodes, in the order of its statements.
Decoded == SubSeq(Statements, 3, 12)

\* The entry of the section st starts beyond the end of the file.
StartsBeyond(st) == Len(file) >= 124 /\ PairOf(file, st).offset > Len(file)

\* The parse failed at the statement st: the statements before it passed,
\* st did not, and nothing ran after it.
FailedAt(st) ==
    /\ pc = "err"
    /\ ~Passed(st)
    /\ \A j \in 1..(StatementIndex(st) - 1) : Passed(Statements[j])
    /\ ~result.ok

\* C23 as claimed: reading the directory never fails because of the
\* offsets or sizes in it, and for every decoded section an entry whose
\* offset lies beyond the end of the input makes the parse fail where that
\* section is read, not earlier and not silently.
C23_BeyondEndFails ==
    /\ (Len(file) >= 124 /\ HasRun("header")) => Passed("header")
    /\ \A k \in 1..Len(Decoded) :
          (StartsBeyond(Decoded[k]) /\ HasRun(Decoded[k]))
          => FailedAt(Decoded[k])

\* The entry of the section st asks for at least one read: the header of
\* the texture section, or one whole record or byte of another section.
AsksForBytes(st) ==
    \/ st = "textures"
    \/ st = "entities" /\ PairOf(file, st).size > 0
    \/ st \in FixedSections /\ PairOf(file, st).size >= WireSizeOf(file, st)

\* C23 amended: reading the directory never fails because of the offsets
\* or sizes in it; an entry whose offset lies beyond the end of the input
\* and whose size holds at least one record (for the texture section: any
\* size) makes the parse fail where that section is read, with a seek to
\* the offset followed by the failed read; an entry of fewer bytes than
\* one record decodes to an empty section wherever it points.
C23_BeyondEndFailsIfRead ==
    /\ (Len(file) >= 124 /\ HasRun("header")) => Passed("header")
    /\ \A k \in 1..Len(Decoded) :
          (StartsBeyond(Decoded[k]) /\ HasRun(Decoded[k]))
          => IF AsksForBytes(Decoded[k])
             THEN /\ FailedAt(Decoded[k])
                  /\ result = Err(UnexpectedEof)
                  /\ log[Len(log) - 1] = Seek(PairOf(file, Decoded[k]).offset)
                  /\ log[Len(log)].op = "read" /\ ~log[Len(log)].ok
             ELSE /\ Passed(Decoded[k])
                  /\ loc[Decoded[k]] = <<>>

\* A parse that failed at the vertices, whose entry starts beyond the end
\* of the file, the sections before them decoded.
C23_Witness ==
    /\ pc = "err"
    /\ StartsBeyond("vertices")
    /\ AsksForBytes("vertices")
    /\ Passed("texture_info")
    /\ ~Passed("vertices")
    /\ log[Len(log) - 1] = Seek(Len(file) + 6)

(***************************************************************************)
(* The section decodes of BspFile::parse run in any order: after the       *)
(* version and the directory, any section not yet decoded is decoded next, *)
(* from wherever the decode before it left the cursor.                     *)
(***************************************************************************)
\* A seek that counts from the cursor: SeekFrom::Current(at).
seek_current(p, at) == p + at

\* reader.seek(SeekFrom::Start(at)) with the cursor at p: the new cursor.
seek_start(p, at) == at

\* read_vec with the cursor at p.
read_vec_at(f, p, entry, T) ==
    read_vec(f, [offset |-> seek_start(p, entry.offset), size |-> entry.size], T)

\* parse_entities(&read_vec::<u8>(..)?)?
entities_of(r) ==
    IF r.ok THEN [r EXCEPT !.val = parse_entities(r.val).val] ELSE r

\* The statement of BspFile::parse that decodes the section sec, run with
\* the cursor at p.
decode_section(f, p, h, version, sec) ==
    CASE sec = "entities" -> entities_of(read_vec_at(f, p, h.entities, "u8"))
      [] sec = "planes" -> read_vec_at(f, p, h.planes, "Plane")
      [] sec = "textures" -> parse_textures(f, seek_start(p, h.textures.offset))
      [] sec = "texture_info" -> read_vec_at(f, p, h.texture_info, "TextureInfo")
      [] sec = "vertices" -> read_vec_at(f, p, h.vertices, "Vertex")
      [] sec = "lightmaps" -> read_vec_at(f, p, h.lightmaps, "u8")
      [] sec = "edge_list" -> read_vec_at(f, p, h.edge_list, "i32")
      [] sec = "models" -> read_vec_at(f, p, h.models, "Model")
      [] sec = "faces" -> read_vec_at(f, p, h.faces, face_reader(version))
      [] sec = "edges" -> read_vec_at(f, p, h.edges, edge_reader(version))

DecodedSections == {Decoded[k] : k \in 1..Len(Decoded)}

InitAnyOrder ==
    /\ \E m \in {V29Magic, BSP2Magic} :
           file = MkFile(Prm(m, MaxRecords, "none", 0, -1))
    /\ pos = 0
    /\ pc = "version"
    /\ loc = <<>>
    /\ result = NotReturned
    /\ log = <<>>
    /\ inp = Idle
    /\ out = Idle

\* One section decode; log keeps the operations of the last decode only.
DecodeNext ==
    /\ pc = "entities"
    /\ \E sec \in DecodedSections \ DOMAIN loc :
       \E r \in {decode_section(file, pos, loc.h, loc.version, sec)} :
          /\ log' = r.log
          /\ pos' = r.pos
          /\ IF r.ok
             THEN /\ loc' = (sec :> r.val) @@ loc
                  /\ pc' = IF DecodedSections \subseteq DOMAIN loc'
                           THEN "build" ELSE "entities"
                  /\ result' = result
             ELSE /\ loc' = loc
                  /\ pc' = "err"
                  /\ result' = Err(r.err)
    /\ UNCHANGED <<file, inp, out>>

NextAnyOrder ==
    \/ ReadVersion
    \/ ReadHeader
    \/ DecodeNext
    \/ Build

SpecAnyOrder == InitAnyOrder /\ [][NextAnyOrder]_vars

\* The section sec as it is decoded with the cursor at the start of the
\* file.
FromStart(sec) == decode_section(file, 0, loc.h, loc.version, sec).val

\* C24: a section decode seeks to the offset of its own entry first, so
\* what it returns does not depend on where the decodes before it left the
\* cursor, and the decodes run in any order give the same aggregate for
\* the same bytes.
C24_OrderIndependent ==
    /\ pc # "err"
    /\ \A sec \in DecodedSections \cap DOMAIN loc : loc[sec] = FromStart(sec)
    /\ pc = "done"
       => /\ result.ok
          /\ \A sec \in DecodedSections : result.val[sec] = FromStart(sec)

\* An aggregate built after a run whose last decode was the entities, the
\* first decode of the order of the source.
C24_Witness ==
    /\ pc = "done"
    /\ result.ok
    /\ Len(result.val.edges) = MaxRecords
    /\ Len(result.val.entities) > 0
    /\ log[1] = Seek(PairOf(file, "entities").offset)

(***************************************************************************)
(* parse_textures with the mip offsets at their full width of 32 bits: an  *)
(* offset is the pair of its 16-bit halves, so that sums of 2^32 and more  *)
(* are computed.  An overflowing += panics in a build with overflow checks *)
(* and wraps in a build without.                                           *)
(***************************************************************************)
HALF == 65536

\* The u32 n, 0 <= n < 2^31, as a pair of halves.
word_of(n) == [hi |-> n \div HALF, lo |-> n % HALF]

\* The little-endian u32 at the bytes at .. at + 3 of f.
read_word(f, at) ==
    [hi |-> f[at + 3] + 256 * f[at + 4], lo |-> f[at + 1] + 256 * f[at + 2]]

AddOverflow == "attempt to add with overflow"

\* a + b does not fit 32 bits.
overflows(a, b) == a.hi + b.hi + ((a.lo + b.lo) \div HALF) >= HALF

\* a + b reduced modulo 2^32.
wrapping_add(a, b) ==
    [hi |-> (a.hi + b.hi + ((a.lo + b.lo) \div HALF)) % HALF,
     lo |-> (a.lo + b.lo) % HALF]

\* The four += of the loop body on the texture t read at abs_offset.
rebase_wide(t, abs_offset, checks) ==
    IF checks /\ \E o \in {t.offset1, t.offset2, t.offset4, t.offset8} :
                    overflows(o, word_of(abs_offset))
    THEN Panic(AddOverflow)
    ELSE Ok([t EXCEPT !.offset1 = wrapping_add(@, word_of(abs_offset)),
                      !.offset2 = wrapping_add(@, word_of(abs_offset)),
                      !.offset4 = wrapping_add(@, word_of(abs_offset)),
                      !.offset8 = wrapping_add(@, word_of(abs_offset))])

\* Texture::read at p: z is the index of the first zero byte after p (0:
\* none) and a the position after the name field.
texture_wide_at(f, p, z, a) ==
    IF z = 0 \/ a + 24 > Len(f) THEN Err(UnexpectedEof)
    ELSE Ok([name |-> SubSeq(f, p + 1, z - 1),
             width |-> from_le_bytes_i32(SubSeq(f, a + 1, a + 4)),
             height |-> from_le_bytes_i32(SubSeq(f, a + 5, a + 8)),
             offset1 |-> read_word(f, a + 8), offset2 |-> read_word(f, a + 12),
             offset4 |-> read_word(f, a + 16), offset8 |-> read_word(f, a + 20)])

texture_wide_named(f, p, z) == texture_wide_at(f, p, z, Max(z, p + NAME_PAD))

read_Texture_wide(f, p) == texture_wide_named(f, p, find_char(f, 0, p + 1))

RECURSIVE slots_wide(_, _, _, _, _)
\* The rest of the loop after the rebased texture b.
slot_pushed(f, base_offset, offsets, acc, checks, b) ==
    IF ~b.ok THEN b
    ELSE slots_wide(f, base_offset, Tail(offsets), Append(acc, b.val), checks)

\* The loop body after the read r of the texture at abs_offset.
slot_wide(f, base_offset, offsets, acc, checks, abs_offset, r) ==
    IF ~r.ok THEN r
    ELSE slot_pushed(f, base_offset, offsets, acc, checks,
                     rebase_wide(r.val, abs_offset, checks))

\* The loop over header.offsets.  A slot that points beyond the end of f
\* fails at its read, the seek before it succeeds.
slots_wide(f, base_offset, offsets, acc, checks) ==
    IF offsets = <<>> THEN Ok(acc)
    ELSE IF Head(offsets) <= 0
    THEN slots_wide(f, base_offset, Tail(offsets), acc, checks)
    ELSE IF Head(offsets) > Len(f) - base_offset
    THEN Err(UnexpectedEof)
    ELSE slot_wide(f, base_offset, offsets, acc, checks,
                   base_offset + Head(offsets),
                   read_Texture_wide(f, base_offset + Head(offsets)))

textures_wide(f, base_offset, header, checks) ==
    IF ~header.ok THEN Err(header.err)
    ELSE slots_wide(f, base_offset, header.val.offsets, <<>>, checks)

\* parse_textures in a build with overflow checks (checks) or without.
parse_textures_wide(f, base_offset, checks) ==
    IF base_offset > Len(f) - 4 THEN Err(UnexpectedEof)
    ELSE textures_wide(f, base_offset, read_TextureHeader(f, base_offset),
                       checks)

I32_MAX == 2147483647

\* The mip offsets tried, by kind, for a texture read at abs: a small one,
\* 2^31, 2^32 - 1, the largest whose sum with abs fits 32 bits, and the
\* smallest whose sum does not.
MipKinds == {"small", "sign", "max", "fits", "wraps"}

MipWord(kind, abs) ==
    CASE kind = "small" -> word_of(40)
      [] kind = "sign" -> [hi |-> 32768, lo |-> 0]
      [] kind = "max" -> [hi |-> 65535, lo |-> 65535]
      [] kind = "fits" -> [hi |-> 65535, lo |-> 65535 - abs]
      [] kind = "wraps" -> [hi |-> 65535, lo |-> 65536 - abs]

WordBytes(w) == <<w.lo % 256, w.lo \div 256, w.hi % 256, w.hi \div 256>>

\* The mip offset number k of the texture of the input i.
MipOf(i, k) ==
    IF k = i.which THEN MipWord(i.kind, i.base + i.rel) ELSE word_of(40 + 10 * k)

\* i.base bytes (none when the base is beyond any file), a directory of one
\* slot with the relative offset i.rel, and at that offset (when it is
\* small) a texture record t, 4 by 2.
WideFile(i) ==
    (IF i.base < 100 THEN Fill(7, i.base) ELSE <<>>)
        \o to_le_bytes(1, 4) \o to_le_bytes(i.rel, 4)
        \o (IF i.rel < 100 THEN Fill(5, i.rel - 8) ELSE <<>>)
        \o <<116>> \o [j \in 1..15 |-> 0]
        \o to_le_bytes(4, 4) \o to_le_bytes(2, 4)
        \o Flatten([k \in 1..4 |-> WordBytes(MipOf(i, k))])

WideInputs ==
    {[base |-> b, rel |-> r, kind |-> kd, which |-> k] :
        b \in {0, 3}, r \in {8, 12}, kd \in MipKinds, k \in 1..4}
      \cup {[base |-> b, rel |-> r, kind |-> "small", which |-> 1] :
              b \in {0, 3, I32_MAX}, r \in {8, 12, I32_MAX}}

InitWide ==
    /\ inp \in WideInputs
    /\ out = Idle
    /\ pc = "call"
    /\ file = <<>>
    /\ pos = 0
    /\ loc = <<>>
    /\ result = NotReturned
    /\ log = <<>>

\* parse_textures as built with overflow checks.
CallParseTexturesChecked ==
    /\ pc = "call"
    /\ pc' = "returned"
    /\ out' = parse_textures_wide(WideFile(inp), inp.base, TRUE)
    /\ UNCHANGED <<file, pos, loc, result, log, inp>>

\* parse_textures as built without overflow checks.
CallParseTexturesUnchecked ==
    /\ pc = "call"
    /\ pc' = "returned"
    /\ out' = parse_textures_wide(WideFile(inp), inp.base, FALSE)
    /\ UNCHANGED <<file, pos, loc, result, log, inp>>

NextWide == CallParseTexturesChecked \/ CallParseTexturesUnchecked

SpecWide == InitWide /\ [][NextWide]_vars

\* The sum of the mip offset m and the position abs of the texture, exact:
\* its upper half is 65536 or more when the sum does not fit 32 bits.
ExactSum(m, abs) ==
    [hi |-> m.hi + ((m.lo + abs) \div HALF), lo |-> (m.lo + abs) % HALF]

\* The four offsets of a texture record, in the order of the record.
OffsetsOf(t) == <<t.offset1, t.offset2, t.offset4, t.offset8>>

\* C25 as claimed: for every decoded texture each of the four stored mip
\* offsets is the section's base offset + the slot's relative offset + the
\* relative mip offset read from the texture header, an absolute position
\* in the file, and name, width and height are stored as read.
C25_AbsoluteOffsets ==
    (pc = "returned" /\ out.ok)
    => /\ Len(out.val) = 1
       /\ out.val[1].name = <<116>>
       /\ out.val[1].width = 4
       /\ out.val[1].height = 2
       /\ \A k \in 1..4 :
             OffsetsOf(out.val[1])[k] = ExactSum(MipOf(inp, k), inp.base + inp.rel)

\* C29 as claimed: the conversion of the mip offsets never wraps and never
\* aborts: for every base offset, positive relative offset and mip offset
\* of 32 bits parse_textures stores the exact sum or returns an error.
C29_NoWrapNoAbort ==
    pc = "returned"
    => /\ "panic" \notin DOMAIN out
       /\ out.ok =>
             \A j \in 1..Len(out.val) : \A k \in 1..4 :
                 OffsetsOf(out.val[j])[k]
                     = ExactSum(MipOf(inp, k), inp.base + inp.rel)

-----------------------------------------------------------------------------
\* Model::face_indexes (lib.rs) and the ranges materialized while decoding
\* by Model::parse and Face::parse (bsp.rs).  A usize has 64 bits, kept as
\* two 32-bit words; an i32 is the word of its two's complement.

ZERO_WORD == [hi |-> 0, lo |-> 0]

ONES_WORD == [hi |-> HALF - 1, lo |-> HALF - 1]

\* The i32 of the word w is negative.
negative(w) == w.hi >= HALF \div 2

\* `v as usize` of an i32: sign extension.
i32_as_usize(w) == [top |-> IF negative(w) THEN ONES_WORD ELSE ZERO_WORD, low |-> w]

\* `v as usize` of a u16.
u16_as_usize(v) == [top |-> ZERO_WORD, low |-> [hi |-> 0, lo |-> v]]

\* The carry of the low words of a + b, as a word.
carry_of(a, b) == IF overflows(a.low, b.low) THEN word_of(1) ELSE ZERO_WORD

\* a + b on usize does not fit 64 bits.
usize_overflows(a, b) ==
    \/ overflows(a.top, b.top)
    \/ overflows(wrapping_add(a.top, b.top), carry_of(a, b))

\* a + b on usize reduced modulo 2^64.
usize_wrapping_add(a, b) ==
    [top |-> wrapping_add(wrapping_add(a.top, b.top), carry_of(a, b)),
     low |-> wrapping_add(a.low, b.low)]

\* start..(start + count) on usize.
range_from_start(start, count, checks) ==
    IF checks /\ usize_overflows(start, count)
    THEN Panic(AddOverflow)
    ELSE [ok |-> TRUE,
          val |-> [start |-> start, end |-> usize_wrapping_add(start, count)]]

\* Model::face_indexes of lib.rs and the face_indexes field of Model::parse
\* of bsp.rs: both fields are i32.
face_indexes(model, checks) ==
    range_from_start(i32_as_usize(model.face_index_from),
                     i32_as_usize(model.face_count), checks)

\* The edge_indexes field of Face::parse of bsp.rs: an i32 and a u16.
edge_indexes(start, count, checks) ==
    range_from_start(i32_as_usize(start), u16_as_usize(count), checks)

\* The two words at the bytes at .. at + 7 of f, the last two fields of a
\* model record.
read_face_fields(f, at) ==
    [face_index_from |-> read_word(f, at), face_count |-> read_word(f, at + 4)]

\* The i32 values tried for a start and a count: 0, 1, 2, 5, 2^31 - 1, -1,
\* -2 and -2^31.
RangeWords ==
    {word_of(0), word_of(1), word_of(2), word_of(5), word_of(I32_MAX),
     ONES_WORD, [hi |-> HALF - 1, lo |-> HALF - 2], [hi |-> HALF \div 2, lo |-> 0]}

RangeInputs ==
    {[rec |-> "model", start |-> s, count |-> c] : s, c \in RangeWords}
      \cup {[rec |-> "face", start |-> s, count |-> [hi |-> 0, lo |-> c]] :
              s \in RangeWords, c \in {0, 1, 3, HALF - 1}}

InitRanges ==
    /\ inp \in RangeInputs
    /\ out = Idle
    /\ pc = "call"
    /\ file = WordBytes(inp.start) \o WordBytes(inp.count)
    /\ pos = 0
    /\ loc = <<>>
    /\ result = NotReturned
    /\ log = <<>>

\* face_indexes as built with overflow checks.
CallFaceIndexesChecked ==
    /\ pc = "call"
    /\ inp.rec = "model"
    /\ pc' = "returned"
    /\ out' = face_indexes(read_face_fields(file, 0), TRUE)
    /\ UNCHANGED <<file, pos, loc, result, log, inp>>

\* face_indexes as built without overflow checks.
CallFaceIndexesUnchecked ==
    /\ pc = "call"
    /\ inp.rec = "model"
    /\ pc' = "returned"
    /\ out' = face_indexes(read_face_fields(file, 0), FALSE)
    /\ UNCHANGED <<file, pos, loc, result, log, inp>>

\* The edge range of Face::parse as built with overflow checks.
CallEdgeIndexesChecked ==
    /\ pc = "call"
    /\ inp.rec = "face"
    /\ pc' = "returned"
    /\ out' = edge_indexes(read_word(file, 0), U16At(file, 4), TRUE)
    /\ UNCHANGED <<file, pos, loc, result, log, inp>>

\* The edge range of Face::parse as built without overflow checks.
CallEdgeIndexesUnchecked ==
    /\ pc = "call"
    /\ inp.rec = "face"
    /\ pc' = "returned"
    /\ out' = edge_indexes(read_word(file, 0), U16At(file, 4), FALSE)
    /\ UNCHANGED <<file, pos, loc, result, log, inp>>

NextRanges ==
    \/ CallFaceIndexesChecked
    \/ CallFaceIndexesUnchecked
    \/ CallEdgeIndexesChecked
    \/ CallEdgeIndexesUnchecked

SpecRanges == InitRanges /\ [][NextRanges]_vars

\* The usize of a number below 2^32 given as a word.
Exact(w) == [top |-> ZERO_WORD, low |-> w]

\* The sum of two words as a number of up to 33 bits.
ExactEnd(s, c) ==
    [top |-> word_of((s.hi + c.hi + ((s.lo + c.lo) \div HALF)) \div HALF),
     low |-> wrapping_add(s, c)]

\* C26 as claimed: for every (start, count) pair a model or face record can
\* store, the materialized range is the half-open range start..start + count,
\* holding exactly count indices beginning at start, and no record is
\* rejected or altered.
C26_RangeIsStartCount ==
    pc = "returned"
    => /\ out.ok
       /\ ~negative(inp.start)
       /\ inp.rec = "model" => ~negative(inp.count)
       /\ out.val = [start |-> Exact(inp.start),
                     end |-> ExactEnd(inp.start, inp.count)]

-----------------------------------------------------------------------------
\* parse_textures followed by get_face_texture: the textures of a file whose
\* directory has skipped slots, looked up through a texture info whose
\* texture_index is inp.t.

InitNumbering ==
    /\ inp \in [base : {0, 3}, up : BOOLEAN, t : 0..MaxSlots,
                slots : UNION {[1..k -> SlotKinds] : k \in 0..MaxSlots}]
    /\ out = Idle
    /\ pc = "call"
    /\ file = <<>>
    /\ pos = 0
    /\ loc = <<>>
    /\ result = NotReturned
    /\ log = <<>>

\* The aggregate of BspFile::parse as far as get_face_texture reads it: the
\* textures returned by parse_textures and one texture info.
bsp_with_textures(textures, texture_index) ==
    [textures |-> textures,
     texture_info |-> <<[texture_index |-> texture_index]>>]

\* get_face_texture on the aggregate built from the parsed textures; a
\* failed parse_textures fails BspFile::parse.
face_texture_of_parsed(parsed, texture_index) ==
    IF ~parsed.ok THEN parsed
    ELSE get_face_texture(bsp_with_textures(parsed.val, texture_index),
                          [texture_info_index |-> 0])

CallGetFaceTextureOfParsed ==
    /\ pc = "call"
    /\ pc' = "returned"
    /\ out' = face_texture_of_parsed(parse_textures(SlotsFile(inp), inp.base), inp.t)
    /\ UNCHANGED <<file, pos, loc, result, log, inp>>

NextNumbering == CallGetFaceTextureOfParsed

SpecNumbering == InitNumbering /\ [][NextNumbering]_vars

\* C28 as claimed: texture numbering is stable: for every texture info
\* whose texture_index is t, get_face_texture returns the texture that was
\* decoded from slot t of the texture directory, also when a slot before t
\* has a relative offset of zero or less.
C28_StableNumbering ==
    (/\ pc = "returned"
     /\ inp.t < Len(inp.slots)
     /\ inp.slots[inp.t + 1] = "texture")
    => /\ out.ok
       /\ out.val = ExpectedTexture(inp, Rank(inp, inp.t + 1))

-----------------------------------------------------------------------------
\* entities.rs: get_entities_string.  Indexes count from 1 and 0 stands for
\* None.

WORLDSPAWN == <<34, 119, 111, 114, 108, 100, 115, 112, 97, 119, 110, 34>>

MissingWorldspawn == "Entities not found (missing worldspawn)"

FirstOpeningBrace == "Entities not found (first opening brace)"

NullTerminator == "Entities not found (null terminator)"

LastClosingBrace == "Entities not found (last closing brace)"

EntitiesInvalidUtf8 == "Entities not found (invalid UTF-8)"

SliceIndexOrder == "slice index starts after its end"

\* s[..k].rfind(c) for a single byte c: the last index up to k that holds c.
RECURSIVE rfind_byte(_, _, _)
rfind_byte(s, c, k) ==
    IF k = 0 THEN 0
    ELSE IF s[k] = c THEN k
    ELSE rfind_byte(s, c, k - 1)

\* .map(|b| *b & 127)
strip_color(bytes) == [j \in 1..Len(bytes) |-> bytes[j] % 128]

\* The last let-else and the result.
entities_text(plain_data) ==
    IF to_str(plain_data).ok THEN Ok(plain_data) ELSE Err(EntitiesInvalidUtf8)

\* The fourth let-else and data[index_from..=index_to]: from and to are the
\* indexes of the opening and the closing brace.
entities_slice(data, from, to) ==
    IF to = 0 THEN Err(LastClosingBrace)
    ELSE IF to + 1 < from THEN Panic(SliceIndexOrder)
    ELSE entities_text(strip_color(SubSeq(data, from, to)))

\* The third let-else: nullterm is the index of the first zero byte at or
\* after the opening brace.
entities_to(data, from, nullterm) ==
    IF nullterm = 0 THEN Err(NullTerminator)
    ELSE entities_slice(data, from, rfind_byte(data, RBRACE, nullterm - 1))

\* The second let-else.
entities_nullterm(data, from) ==
    IF from = 0 THEN Err(FirstOpeningBrace)
    ELSE entities_to(data, from, find_char(data, 0, from))

\* The first let-else: worldspawn is the index of the first occurrence of
\* the needle.
entities_from(data, worldspawn) ==
    IF worldspawn = 0 THEN Err(MissingWorldspawn)
    ELSE entities_nullterm(data, rfind_byte(data, LBRACE, worldspawn - 1))

get_entities_string(data) == entities_from(data, find_str(data, WORLDSPAWN, 1))

\* The needle, the braces, the end of one block with the start of the next,
\* the zero byte, a letter, and the same letter coloured before a closing
\* brace.
EntityTokens ==
    {WORLDSPAWN, <<LBRACE>>, <<RBRACE>>, <<RBRACE, LF, LBRACE>>, <<0>>, <<97>>,
     <<225, RBRACE>>}

InitEntitiesString ==
    /\ inp \in UNION {[1..k -> EntityTokens] : k \in 0..MaxTokens}
    /\ out = Idle
    /\ pc = "call"
    /\ file = <<>>
    /\ pos = 0
    /\ loc = <<>>
    /\ result = NotReturned
    /\ log = <<>>

CallGetEntitiesString ==
    /\ pc = "call"
    /\ pc' = "returned"
    /\ out' = get_entities_string(Flatten(inp))
    /\ UNCHANGED <<file, pos, loc, result, log, inp>>

NextEntitiesString == CallGetEntitiesString

SpecEntitiesString == InitEntitiesString /\ [][NextEntitiesString]_vars

\* The indexes at which the needle "worldspawn" occurs in d.
WorldspawnAt(d) ==
    {k \in 1..(Len(d) - Len(WORLDSPAWN) + 1) :
        SubSeq(d, k, k + Len(WORLDSPAWN) - 1) = WORLDSPAWN}

\* The largest and the smallest member of a set of numbers that is not
\* empty.
Largest(S) == CHOOSE k \in S : \A j \in S : j <= k

Smallest(S) == CHOOSE k \in S : \A j \in S : k <= j

\* The indexes below the first needle that hold an opening brace.
OpeningBraces(d) ==
    {k \in 1..(Smallest(WorldspawnAt(d)) - 1) : d[k] = LBRACE}

\* The indexes of the zero bytes at or after the index a.
ZerosFrom(d, a) == {k \in a..Len(d) : d[k] = 0}

\* The indexes below the index z that hold a closing brace.
ClosingBraces(d, z) == {k \in 1..(z - 1) : d[k] = RBRACE}

\* C30 as claimed: get_entities_string returns Ok or Err for every byte
\* input and never aborts on a slice bound; a text it returns starts with
\* the last opening brace before the first "worldspawn", ends with the last
\* closing brace before the first zero byte after that opening brace and
\* holds only bytes below 128.
C30_EntitiesStringBraced ==
    pc = "returned"
    => /\ "panic" \notin DOMAIN out
       /\ out.ok =>
             /\ Len(out.val) >= 1
             /\ out.val[1] = LBRACE
             /\ out.val[Len(out.val)] = RBRACE
             /\ \A j \in 1..Len(out.val) : out.val[j] < 128
             /\ out.val
                 = [j \in 1..Len(out.val) |->
                       Flatten(inp)[Largest(OpeningBraces(Flatten(inp))) + j - 1] % 128]
             /\ Largest(OpeningBraces(Flatten(inp))) + Len(out.val) - 1
                 = Largest(ClosingBraces(Flatten(inp),
                       Smallest(ZerosFrom(Flatten(inp),
                           Largest(OpeningBraces(Flatten(inp)))))))

=============================================================================
